---- MODULE Spec2Model ----
(***************************************************************************)
(* State-machine model of streamlit_app.py: the flashcard Store, the       *)
(* weighted Selector with its recency window, and the promotion/demotion   *)
(* progression.  Python lists are 0-based; sequences here are 1-based, so   *)
(* the Python index i names element i + 1.                                  *)
(***************************************************************************)
EXTENDS Integers, Sequences, FiniteSets, TLC

VARIABLES flashcards, level_keys, study_folders, meta, recently_shown, current,
          show_answer, local_file, drive, call

vars == <<flashcards, level_keys, study_folders, meta, recently_shown, current,
          show_answer, local_file, drive, call>>

----------------------------------------------------------------------------
(* Bounds of the model *)

\* most cards the Store holds at once
MaxCards == 2

\* capacity of the recency window (st.session_state.recent_max is 50)
recent_max == 2

\* number of equally spaced values random() takes in the model
DrawGrid == 20

\* retry budget of get_next_question (while attempts < 10)
MaxAttempts == 10

----------------------------------------------------------------------------
(* Configuration *)

DEFAULT_FOLDER == "All Cards"

level_order == <<"level_1", "level_2", "level_3", "level_4">>

\* DICTIONARIES.keys()
Levels == {level_order[n] : n \in 1..Len(level_order)}

\* Python's None
None == "None"

\* None where the value, when there is one, is a tuple
NoTuple == <<>>

\* folder names the model uses
FolderNames == {DEFAULT_FOLDER, "B"}

\* {level: [] for level in DICTIONARIES.keys()}
EmptyFolder == [lvl \in Levels |-> <<>>]

\* texts typed into the Add form; " " is blank after strip()
QuestionInputs == {"a", "a|", " "}

AnswerInputs == {" a "}

\* str.strip() on the texts the model uses
strip(s) ==
    CASE s = " " -> ""
      [] s = " a " -> "a"
      [] s = " P/C " -> "P/C"
      [] OTHER -> s

\* Python indices the model passes to the Store functions (0-based, -1 = last)
Indices == -1..MaxCards

----------------------------------------------------------------------------
(* Python list helpers *)

\* list.index(x) on level_order
level_index(lvl) == CHOOSE n \in 0..3 : level_order[n + 1] = lvl

\* whether list.pop(i) / list[i] finds an element (negative i counts from the end)
PyIndexOK(s, i) == -Len(s) <= i /\ i < Len(s)

\* 1-based position that the Python index i names
PyPos(s, i) == IF i < 0 THEN Len(s) + i + 1 ELSE i + 1

\* the list after list.pop(i)
PyPopRest(s, i) ==
    [n \in 1..(Len(s) - 1) |-> IF n < PyPos(s, i) THEN s[n] ELSE s[n + 1]]

\* folder_keys(): the keys of the Store other than "_meta"
folder_keys(fc) == (DOMAIN fc) \ {"_meta"}

\* number of cards in the whole Store
TotalCards(fc) ==
    LET RECURSIVE Sum(_)
        Sum(S) == IF S = {} THEN 0
                  ELSE LET b == CHOOSE x \in S : TRUE
                       IN Len(fc[b[1]][b[2]]) + Sum(S \ {b})
    IN Sum(folder_keys(fc) \X Levels)

----------------------------------------------------------------------------
(* Persistence *)

\* the order of the level keys of each folder dict: a folder that was there keeps
\* its dict and so its order, a folder made by the app has the order of DICTIONARIES
kept_keys(keys, fc) ==
    [f \in folder_keys(fc) |-> IF f \in DOMAIN keys THEN keys[f] ELSE level_order]

\* save_flashcards: the document written to LOCAL_FILE, the folders with their
\* level keys in the order of the dicts, and the settings under "_meta"
save_flashcards(fc, m, keys) ==
    <<[folders |-> [f \in folder_keys(fc) |-> fc[f]], _meta |-> m,
       key_order |-> kept_keys(keys, fc)]>>

\* The Drive mirror of save_flashcards: whether Google credentials are there,
\* what the file on Drive holds ("none": there is no file, "uploaded": the Store
\* as last saved, "earlier": the Store of an earlier save), and of the last Store
\* function call how many uploads it began and whether it showed the sync warning
NoDrive == [credentials |-> FALSE, file |-> "none", warning |-> FALSE, attempts |-> 0]

\* the Drive file after an upload that failed: as it was
left_behind(file) == IF file = "none" THEN "none" ELSE "earlier"

\* an upload whose failure shows no warning
mirror_attempt_silent(d, ok) ==
    [credentials |-> d.credentials, file |-> IF ok THEN "uploaded" ELSE left_behind(d.file),
     warning |-> FALSE, attempts |-> 1]

\* the try block of save_flashcards: the upload replaces the Drive file, or an
\* exception of any of its statements is caught and shown as a warning
mirror_attempt(d, ok) ==
    [credentials |-> d.credentials, file |-> IF ok THEN "uploaded" ELSE left_behind(d.file),
     warning |-> ~ok, attempts |-> 1]

----------------------------------------------------------------------------
(* Store functions.  Each returns the Store after the call, the value       *)
(* returned ("True", "False", or the exception raised) and whether          *)
(* save_flashcards ran.                                                      *)

Outcome(fc, ret, saved) == [fc |-> fc, ret |-> ret, saved |-> saved]

\* the new card put at the front of the Learning level
add_new_flashcard_front(fc, question, answer, folder) ==
    IF strip(question) # "" /\ strip(answer) # ""
    THEN LET fc1 == IF folder \in DOMAIN fc THEN fc
                    ELSE [f \in (DOMAIN fc) \cup {folder} |->
                            IF f = folder THEN EmptyFolder ELSE fc[f]]
             new_card == [question |-> strip(question), answer |-> strip(answer),
                          question_image |-> None, answer_image |-> None]
         IN Outcome([fc1 EXCEPT ![folder]["level_1"] = <<new_card>> \o @],
                    "True", TRUE)
    ELSE Outcome(fc, "False", FALSE)

add_new_flashcard(fc, question, answer, folder) ==
    IF strip(question) # "" /\ strip(answer) # ""
    THEN LET fc1 == IF folder \in DOMAIN fc THEN fc
                    ELSE [f \in (DOMAIN fc) \cup {folder} |->
                            IF f = folder THEN EmptyFolder ELSE fc[f]]
             new_card == [question |-> strip(question), answer |-> strip(answer),
                          question_image |-> None, answer_image |-> None]
         IN Outcome([fc1 EXCEPT ![folder]["level_1"] = Append(@, new_card)],
                    "True", TRUE)
    ELSE Outcome(fc, "False", FALSE)

\* the level one step above: level_order[current_idx + 1]
move_card_up_skip(current_idx) == level_order[IF current_idx < 2 THEN current_idx + 3 ELSE 4]

next_level(current_idx) == level_order[current_idx + 2]

move_card_up_top(fc, folder, current_level, card_index) ==
    IF folder \notin DOMAIN fc THEN Outcome(fc, "KeyError", FALSE)
    ELSE IF ~PyIndexOK(fc[folder][current_level], card_index)
    THEN Outcome(fc, "IndexError", FALSE)
    ELSE LET cards == fc[folder][current_level]
             card == cards[PyPos(cards, card_index)]
             popped == [fc EXCEPT ![folder][current_level] = PyPopRest(cards, card_index)]
             up == level_order[IF level_index(current_level) < 3
                               THEN level_index(current_level) + 2 ELSE 4]
         IN Outcome([popped EXCEPT ![folder][up] = Append(@, card)], "True", TRUE)

move_card_up(fc, folder, current_level, card_index) ==
    IF level_index(current_level) < Len(level_order) - 1
    THEN IF folder \notin DOMAIN fc THEN Outcome(fc, "KeyError", FALSE)
         ELSE IF ~PyIndexOK(fc[folder][current_level], card_index)
         THEN Outcome(fc, "IndexError", FALSE)
         ELSE LET cards == fc[folder][current_level]
                  card == cards[PyPos(cards, card_index)]
                  popped == [fc EXCEPT ![folder][current_level] =
                                           PyPopRest(cards, card_index)]
              IN Outcome([popped EXCEPT
                            ![folder][next_level(level_index(current_level))] =
                                Append(@, card)],
                         "True", TRUE)
    ELSE Outcome(fc, "False", FALSE)

move_card_down_one(fc, folder, current_level, card_index) ==
    IF current_level # "level_1"
    THEN IF folder \notin DOMAIN fc THEN Outcome(fc, "KeyError", FALSE)
         ELSE IF ~PyIndexOK(fc[folder][current_level], card_index)
         THEN Outcome(fc, "IndexError", FALSE)
         ELSE LET cards == fc[folder][current_level]
                  card == cards[PyPos(cards, card_index)]
                  popped == [fc EXCEPT ![folder][current_level] =
                                           PyPopRest(cards, card_index)]
              IN Outcome([popped EXCEPT
                            ![folder][level_order[level_index(current_level)]] =
                                Append(@, card)],
                         "True", TRUE)
    ELSE Outcome(fc, "False", FALSE)

move_card_down_bottom(fc, folder, current_level, card_index) ==
    IF folder \notin DOMAIN fc THEN Outcome(fc, "KeyError", FALSE)
    ELSE IF ~PyIndexOK(fc[folder][current_level], card_index)
    THEN Outcome(fc, "IndexError", FALSE)
    ELSE LET cards == fc[folder][current_level]
             card == cards[PyPos(cards, card_index)]
             popped == [fc EXCEPT ![folder][current_level] = PyPopRest(cards, card_index)]
         IN Outcome([popped EXCEPT ![folder]["level_1"] = Append(@, card)], "True", TRUE)

move_card_down(fc, folder, current_level, card_index) ==
    IF current_level # "level_1"
    THEN IF folder \notin DOMAIN fc THEN Outcome(fc, "KeyError", FALSE)
         ELSE IF ~PyIndexOK(fc[folder][current_level], card_index)
         THEN Outcome(fc, "IndexError", FALSE)
         ELSE LET cards == fc[folder][current_level]
                  card == cards[PyPos(cards, card_index)]
                  popped == [fc EXCEPT ![folder][current_level] =
                                           PyPopRest(cards, card_index)]
              IN Outcome([popped EXCEPT ![folder]["level_1"] = Append(@, card)],
                         "True", TRUE)
    ELSE Outcome(fc, "False", FALSE)

\* the Store with folder present: unchanged, or with folder added with four
\* empty levels
with_folder(fc, folder) ==
    IF folder \in DOMAIN fc THEN fc
    ELSE [f \in (DOMAIN fc) \cup {folder} |-> IF f = folder THEN EmptyFolder ELSE fc[f]]

\* 0 <= index < len(list)
in_bounds(s, index) == 0 <= index /\ index < Len(s)

\* delete without the lower bound check: a negative index counts from the end
delete_flashcard_pop(fc, folder, level, index) ==
    IF folder \in DOMAIN fc /\ PyIndexOK(fc[folder][level], index)
    THEN Outcome([fc EXCEPT ![folder][level] = PyPopRest(@, index)], "True", TRUE)
    ELSE Outcome(fc, "False", FALSE)

delete_flashcard(fc, folder, level, index) ==
    IF folder \in DOMAIN fc /\ in_bounds(fc[folder][level], index)
    THEN Outcome([fc EXCEPT ![folder][level] = PyPopRest(@, index)], "True", TRUE)
    ELSE Outcome(fc, "False", FALSE)

\* edit that stores the image arguments as given, None included
edit_flashcard_images(fc, folder, level, index, new_question, new_answer, question_image, answer_image) ==
    IF folder \in DOMAIN fc /\ in_bounds(fc[folder][level], index)
    THEN Outcome([fc EXCEPT ![folder][level][index + 1] =
                     [question |-> strip(new_question),
                      answer |-> strip(new_answer),
                      question_image |-> question_image,
                      answer_image |-> answer_image]],
                 "True", TRUE)
    ELSE Outcome(fc, "False", FALSE)

edit_flashcard(fc, folder, level, index, new_question, new_answer, question_image, answer_image) ==
    IF folder \in DOMAIN fc /\ in_bounds(fc[folder][level], index)
    THEN Outcome([fc EXCEPT ![folder][level][index + 1] =
                     [question |-> strip(new_question),
                      answer |-> strip(new_answer),
                      question_image |-> IF question_image # None
                                         THEN question_image ELSE @.question_image,
                      answer_image |-> IF answer_image # None
                                       THEN answer_image ELSE @.answer_image]],
                 "True", TRUE)
    ELSE Outcome(fc, "False", FALSE)

\* the Store after list.pop(index) on from_folder/level and append on to_folder/level
relocated(fc, from_folder, level, index, to_folder) ==
    LET card == fc[from_folder][level][index + 1]
        popped == [fc EXCEPT ![from_folder][level] = PyPopRest(@, index)]
    IN [popped EXCEPT ![to_folder][level] = Append(@, card)]

move_card_to_folder(fc, from_folder, level, index, to_folder) ==
    IF /\ from_folder \in DOMAIN fc /\ to_folder \in DOMAIN fc
       /\ in_bounds(fc[from_folder][level], index)
    THEN Outcome(relocated(fc, from_folder, level, index, to_folder), "True", TRUE)
    ELSE Outcome(fc, "False", FALSE)

move_card_between_folders(fc, src_folder, level, index, target_folder) ==
    IF src_folder \notin DOMAIN fc THEN Outcome(fc, "False", FALSE)
    ELSE LET fc1 == with_folder(fc, target_folder)
         IN IF in_bounds(fc1[src_folder][level], index)
            THEN Outcome(relocated(fc1, src_folder, level, index, target_folder),
                         "True", TRUE)
            ELSE Outcome(fc1, "False", FALSE)

\* all_cards after extend(level) for the first n values of the folder dict
RECURSIVE all_cards(_, _, _)
all_cards(levels, keys, n) ==
    IF n = 0 THEN <<>> ELSE all_cards(levels, keys, n - 1) \o levels[keys[n]]

\* a reset that keeps the Learning cards only
reset_folder_learning(levels, keys) ==
    [lvl \in Levels |-> IF lvl = "level_1" THEN levels["level_1"] ELSE <<>>]

\* a folder with every card of its levels in level_1, in the order in which the
\* folder dict, whose keys are in the order keys, yields its values
reset_folder(levels, keys) ==
    [lvl \in Levels |->
        IF lvl = "level_1" THEN all_cards(levels, keys, Len(keys)) ELSE <<>>]

\* the folders whose dict reset_all_cards(folder) and delete_all_cards(folder)
\* replace; folder = None stands for every folder of folder_keys()
replaced(fc, folder) ==
    IF folder = None THEN folder_keys(fc) ELSE {folder} \cap DOMAIN fc

\* the key orders after these folders got a new dict
fresh_keys(keys, fc, folder) ==
    [f \in folder_keys(fc) |->
        IF f \in replaced(fc, folder) THEN level_order ELSE kept_keys(keys, fc)[f]]

\* reset_all_cards(folder)
reset_all_cards(fc, keys, folder) ==
    Outcome([f \in DOMAIN fc |->
               IF f \in replaced(fc, folder)
               THEN reset_folder(fc[f], kept_keys(keys, fc)[f]) ELSE fc[f]],
            None, TRUE)

\* delete_all_cards(folder)
delete_all_cards(fc, folder) ==
    Outcome([f \in DOMAIN fc |-> IF f \in replaced(fc, folder) THEN EmptyFolder ELSE fc[f]],
            None, TRUE)

\* the parents "/".join(parts[:i]) of the folder names the model uses
parents(name) == IF name = "P/C" THEN <<"P">> ELSE <<>>

\* the Store after the loop that creates the first n parents that are absent
RECURSIVE with_parents(_, _, _)
with_parents(fc, chain, n) ==
    IF n = 0 THEN fc
    ELSE IF chain[n] # "" THEN with_folder(with_parents(fc, chain, n - 1), chain[n])
    ELSE with_parents(fc, chain, n - 1)

create_folder(fc, folder_name) ==
    LET name == strip(folder_name)
    IN IF name = "" THEN Outcome(fc, "False", FALSE)
       ELSE LET fc1 == with_parents(fc, parents(name), Len(parents(name)))
            IN IF name \notin DOMAIN fc1
               THEN Outcome(with_folder(fc1, name), "True", TRUE)
               ELSE Outcome(fc1, "False", FALSE)

delete_folder(fc, folder_name) ==
    IF folder_name \in DOMAIN fc /\ folder_name # DEFAULT_FOLDER
    THEN Outcome([f \in (DOMAIN fc) \ {folder_name} |-> fc[f]], "True", TRUE)
    ELSE Outcome(fc, "False", FALSE)

\* rename_folder also replaces old_name in study_folders
rename_folder(fc, sf, old_name, new_name) ==
    IF strip(new_name) = "" \/ old_name \notin DOMAIN fc \/ new_name \in DOMAIN fc
    THEN [fc |-> fc, ret |-> "False", saved |-> FALSE, study_folders |-> sf]
    ELSE [fc |-> [f \in ((DOMAIN fc) \ {old_name}) \cup {new_name} |->
                    IF f = new_name THEN fc[old_name] ELSE fc[f]],
          ret |-> "True", saved |-> TRUE,
          study_folders |-> [n \in 1..Len(sf) |->
                               IF sf[n] = old_name THEN new_name ELSE sf[n]]]

\* the key orders after rename_folder: the dict moves to the new name
renamed_keys(keys, fc, sf, old_name, new_name) ==
    IF rename_folder(fc, sf, old_name, new_name).saved
    THEN [f \in folder_keys(rename_folder(fc, sf, old_name, new_name).fc) |->
            kept_keys(keys, fc)[IF f = new_name THEN old_name ELSE f]]
    ELSE kept_keys(keys, fc)

----------------------------------------------------------------------------
(* Selector: get_next_question *)

\* random() returns k / DrawGrid for k in Draws, a value of [0, 1)
Draws == 0..(DrawGrid - 1)

\* folder_weights.get(f, 1.0), in tenths
weight_of(folder_weights, f) ==
    IF f \in DOMAIN folder_weights THEN folder_weights[f] ELSE 10

\* draw_chances.get(lvl, DICTIONARIES[lvl]["draw_chance"]), in 1 / draw_unit
chance_of(m, lvl) == m.draw_chances[lvl]

\* the list without the elements that already occur earlier in it (dict keys)
RECURSIVE dedup(_)
dedup(s) ==
    IF s = <<>> THEN <<>>
    ELSE LET front == dedup(SubSeq(s, 1, Len(s) - 1))
             last == s[Len(s)]
         IN IF \E n \in 1..Len(front) : front[n] = last THEN front
            ELSE Append(front, last)

\* list(available.keys()): the study folders that are in the Store, in order
folders_list(fc, sf) ==
    dedup(SelectSeq(sf, LAMBDA f : f \in DOMAIN fc))

\* sum of the first n elements
RECURSIVE upto(_, _)
upto(weights_list, n) ==
    IF n = 0 THEN 0 ELSE upto(weights_list, n - 1) + weights_list[n]

\* r <= upto in weighted_choice, for r = random() * total = (k / DrawGrid) * total
within(k, total, sum) == k * total <= DrawGrid * sum

\* the values upto takes after each of the first n items
RECURSIVE running(_, _)
running(weights_list, n) ==
    IF n = 0 THEN <<>> ELSE Append(running(weights_list, n - 1), upto(weights_list, n))

\* weighted_choice(items, weights_list) when total > 0 and random() = k / DrawGrid;
\* sums[n] is upto after item n, the last of them is total
weighted_choice(items, sums, k) ==
    LET hits == {n \in 1..Len(items) : within(k, sums[Len(sums)], sums[n])}
    IN IF hits = {} THEN items[Len(items)]
       ELSE items[CHOOSE n \in hits : \A h \in hits : n <= h]

\* the folders weighted_choice can return: choice(items) when total <= 0
pickable_folders(items, weights_list) ==
    IF upto(weights_list, Len(weights_list)) <= 0
    THEN {items[n] : n \in 1..Len(items)}
    ELSE UNION {{weighted_choice(items, sums, k) : k \in Draws} :
                  sums \in {running(weights_list, Len(items))}}

\* cumulative draw chance of the first n levels
RECURSIVE cumulative(_, _)
cumulative(m, n) ==
    IF n = 0 THEN 0 ELSE cumulative(m, n - 1) + chance_of(m, level_order[n])

\* the values cumulative takes after each of the first n levels
RECURSIVE level_sums(_, _)
level_sums(m, n) ==
    IF n = 0 THEN <<>> ELSE Append(level_sums(m, n - 1), cumulative(m, n))

\* a walk that takes the last level whose cumulative chance reaches the draw
chosen_level_last(sums, draw_unit, k) ==
    LET hits == {n \in 1..4 : k * draw_unit <= DrawGrid * sums[n]}
    IN IF hits = {} THEN "level_4"
       ELSE level_order[CHOOSE n \in hits : \A h \in hits : n >= h]

\* the level chosen when random() = k / DrawGrid; chances are in draw_unit-ths
chosen_level(sums, draw_unit, k) ==
    LET hits == {n \in 1..4 : k * draw_unit <= DrawGrid * sums[n]}
    IN IF hits = {} THEN "level_4"
       ELSE level_order[CHOOSE n \in hits : \A h \in hits : n <= h]

pickable_levels(m) ==
    UNION {{chosen_level(sums, m.draw_unit, k) : k \in Draws} :
             sums \in {level_sums(m, 4)}}

\* f"{folder}||{level}||{card.get('question','')}||{card.get('answer','')}"
recency_key(folder, lvl, card) ==
    folder \o "||" \o lvl \o "||" \o card.question \o "||" \o card.answer

\* whether key is in the list recently_shown
is_recent(key, recent) == \E n \in 1..Len(recent) : recent[n] = key

\* recently_shown after append(key) and the trim to the last recent_max entries
record_shown_skip(recent, key) == recent

\* a trim that keeps the oldest recent_max entries
record_shown_oldest(recent, key) ==
    LET added == Append(recent, key)
    IN IF Len(added) > recent_max THEN SubSeq(added, 1, recent_max) ELSE added

record_shown(recent, key) ==
    LET added == Append(recent, key)
    IN IF Len(added) > recent_max
       THEN SubSeq(added, Len(added) - recent_max + 1, Len(added))
       ELSE added

\* candidates numbered from 1
bucket_candidates_from_one(fc, folder, lvl) ==
    {[folder |-> folder, level |-> lvl, index |-> n, card |-> fc[folder][lvl][n],
      key |-> recency_key(folder, lvl, fc[folder][lvl][n])] :
        n \in 1..Len(fc[folder][lvl])}

\* candidates of one bucket: (folder, level, idx, card, key)
bucket_candidates(fc, folder, lvl) ==
    {[folder |-> folder, level |-> lvl, index |-> n - 1, card |-> fc[folder][lvl][n],
      key |-> recency_key(folder, lvl, fc[folder][lvl][n])] :
        n \in 1..Len(fc[folder][lvl])}

\* all_candidates of the fallback: every card of the available folders
all_candidates(fc, sf) ==
    UNION {UNION {bucket_candidates(fc, items[n], lvl) :
                    n \in 1..Len(items), lvl \in Levels} :
             items \in {folders_list(fc, sf)}}

\* non_recent if non_recent else candidates
pick_list_any(candidates, recent) == candidates

pick_list_first(candidates, recent) ==
    {c \in candidates : \A d \in candidates : c.index <= d.index}

pick_list(candidates, recent) ==
    LET non_recent == {c \in candidates : ~is_recent(c.key, recent)}
    IN IF non_recent # {} THEN non_recent ELSE candidates

\* the returned tuple (folder, level, card, idx)
folder_of(result) == result[1]

level_of(result) == result[2]

card_of(result) == result[3]

index_of(result) == result[4]

\* the results of choosing one card among candidates and recording its key
card_outcomes(candidates, recent, path) ==
    {[result |-> <<c.folder, c.level, c.card, c.index>>,
      key |-> c.key,
      recently_shown |-> record_shown(recent, c.key),
      path |-> path] :
        c \in pick_list(candidates, recent)}

\* return None
no_card(recent, path) ==
    {[result |-> NoTuple, key |-> None, recently_shown |-> recent, path |-> path]}

\* the fallback after the retry budget is spent
fallback_none(fc, sf, recent) == no_card(recent, "fallback")

fallback_outcomes(fc, sf, recent) ==
    UNION {IF candidates = {} THEN no_card(recent, "fallback")
           ELSE card_outcomes(candidates, recent, "fallback") :
             candidates \in {all_candidates(fc, sf)}}

\* the (folder, level) pairs one attempt of the loop can choose
attempt_picks(fc, sf, m) ==
    UNION {pickable_folders(items, [j \in 1..Len(items) |->
                                      weight_of(m.folder_weights, items[j])])
             \X pickable_levels(m) :
           items \in {folders_list(fc, sf)}}

\* the cards one attempt of the loop can return: those of the chosen buckets
\* that hold cards
attempt_outcomes(fc, recent, picks) ==
    UNION {card_outcomes(bucket_candidates(fc, p[1], p[2]), recent, "retry") :
             p \in {q \in picks : fc[q[1]][q[2]] # <<>>}}

\* the while loop from the state attempts = n: an attempt that chooses a bucket
\* with cards returns one of them (found), an attempt that chooses an empty
\* bucket (possible when misses) goes round again
RECURSIVE retry_outcomes(_, _, _, _)
retry_outcomes(found, misses, after, n) ==
    IF n < MaxAttempts
    THEN found \cup (IF misses THEN retry_outcomes(found, misses, after, n + 1) ELSE {})
    ELSE after

\* a loop that gives up after its first attempt
RECURSIVE retry_ends_once(_, _, _)
retry_ends_once(finds, misses, n) ==
    IF n < 1
    THEN (IF finds THEN {<<"retry", n + 1>>} ELSE {})
            \cup (IF misses THEN retry_ends_once(finds, misses, n + 1) ELSE {})
    ELSE {<<"fallback", n>>}

\* how the while loop can end from the state attempts = n, with the value of
\* attempts at its end: <<"retry", a>> when attempt a chose a bucket with cards
\* (possible when finds) and returned, <<"fallback", a>> when the condition
\* attempts < 10 became false after a attempts that chose empty buckets
RECURSIVE retry_ends(_, _, _)
retry_ends(finds, misses, n) ==
    IF n < MaxAttempts
    THEN (IF finds THEN {<<"retry", n + 1>>} ELSE {})
            \cup (IF misses THEN retry_ends(finds, misses, n + 1) ELSE {})
    ELSE {<<"fallback", n>>}

\* the ends of the loop of one call of get_next_question, none when the call
\* returns before the loop
loop_ends(fc, sf, m) ==
    IF folders_list(fc, sf) = <<>> THEN {}
    ELSE UNION {retry_ends(\E p \in picks : fc[p[1]][p[2]] # <<>>,
                           \E p \in picks : fc[p[1]][p[2]] = <<>>, 0) :
                  picks \in {attempt_picks(fc, sf, m)}}

\* every (result, recently_shown) one call of get_next_question can produce
get_next_question(fc, sf, m, recent) ==
    IF folders_list(fc, sf) = <<>> THEN no_card(recent, "unavailable")
    ELSE UNION {UNION {retry_outcomes(found,
                                      \E p \in picks : fc[p[1]][p[2]] = <<>>,
                                      after, 0) :
                         found \in {attempt_outcomes(fc, recent, picks)},
                         after \in {fallback_outcomes(fc, sf, recent)}} :
                  picks \in {attempt_picks(fc, sf, m)}}

----------------------------------------------------------------------------
(* Session state after construction with no data file on disk *)

DefaultDrawChances ==
    [lvl \in Levels |->
        CASE lvl = "level_1" -> 50 [] lvl = "level_2" -> 30
          [] lvl = "level_3" -> 15 [] OTHER -> 5]

\* d: the Drive mirror at the start
Started(d) ==
    /\ flashcards = [f \in {DEFAULT_FOLDER} |-> EmptyFolder]
    /\ level_keys = [f \in {DEFAULT_FOLDER} |-> level_order]
    /\ study_folders = <<DEFAULT_FOLDER>>
    /\ meta = [draw_chances |-> DefaultDrawChances, draw_unit |-> 100,
               folder_weights |-> [f \in {DEFAULT_FOLDER} |-> 10]]
    /\ recently_shown = <<>>
    /\ current = NoTuple
    /\ show_answer = FALSE
    /\ local_file = NoTuple
    /\ drive = d
    /\ call = [op |-> "init", level |-> None, args |-> None, ret |-> None]

Init == Started(NoDrive)

\* how the arguments of a call relate to the Store it is made on
ArgsKind(fc, folder, lvl, index) ==
    IF folder \notin DOMAIN fc THEN "no_folder"
    ELSE IF 0 <= index /\ index < Len(fc[folder][lvl]) THEN "in_range"
    ELSE IF PyIndexOK(fc[folder][lvl], index) THEN "negative"
    ELSE "out_of_range"

\* the Drive mirror after a Store function call: when save_flashcards ran and
\* has_google_credentials(), one upload that succeeds or fails
Mirror(saved) ==
    IF saved /\ drive.credentials
    THEN \E ok \in BOOLEAN : drive' = mirror_attempt(drive, ok)
    ELSE drive' = [drive EXCEPT !.warning = FALSE, !.attempts = 0,
                                !.file = IF saved THEN left_behind(@) ELSE @]

\* what a Store function call leaves behind: the Store, the key orders keys of
\* its folder dicts, the file, and the record of the call (function, level
\* argument, kind of arguments, value returned)
ApplyWith(op, lvl, kind, out, keys) ==
    /\ flashcards' = out.fc
    /\ level_keys' = keys
    /\ local_file' = IF out.saved THEN save_flashcards(out.fc, meta, keys) ELSE local_file
    /\ Mirror(out.saved)
    /\ call' = [op |-> op, level |-> lvl, args |-> kind, ret |-> out.ret]

\* a Store function that replaces no folder dict
Apply(op, lvl, kind, out) ==
    ApplyWith(op, lvl, kind, out, kept_keys(level_keys, out.fc))

----------------------------------------------------------------------------
(* The Store functions called directly, with any arguments *)

AddNewFlashcard(question, answer, folder) ==
    /\ TotalCards(flashcards) < MaxCards
    /\ Apply("add_new_flashcard", "level_1", None,
             add_new_flashcard(flashcards, question, answer, folder))
    /\ UNCHANGED <<study_folders, meta, recently_shown, current, show_answer>>

MoveCardUp(folder, current_level, card_index) ==
    /\ Apply("move_card_up", current_level,
             ArgsKind(flashcards, folder, current_level, card_index),
             move_card_up(flashcards, folder, current_level, card_index))
    /\ UNCHANGED <<study_folders, meta, recently_shown, current, show_answer>>

MoveCardDown(folder, current_level, card_index) ==
    /\ Apply("move_card_down", current_level,
             ArgsKind(flashcards, folder, current_level, card_index),
             move_card_down(flashcards, folder, current_level, card_index))
    /\ UNCHANGED <<study_folders, meta, recently_shown, current, show_answer>>

OpsNext ==
    \/ \E q \in QuestionInputs, a \in AnswerInputs, f \in FolderNames :
          AddNewFlashcard(q, a, f)
    \/ \E f \in FolderNames, lvl \in Levels, i \in Indices : MoveCardUp(f, lvl, i)
    \/ \E f \in FolderNames, lvl \in Levels, i \in Indices : MoveCardDown(f, lvl, i)

OpsSpec == Init /\ [][OpsNext]_vars

\* the same functions called in a session that has Google credentials
MirrorInit == Started([NoDrive EXCEPT !.credentials = TRUE])

MirrorSpec == MirrorInit /\ [][OpsNext]_vars

----------------------------------------------------------------------------
(* The Selector called again and again on a Store loaded from the data file *)

\* cards of the loaded documents; the first two differ in question and in answer
\* and have the same recency key
FileCards ==
    << [question |-> "a", answer |-> "|a", question_image |-> None, answer_image |-> None],
       [question |-> "a|", answer |-> "a", question_image |-> None, answer_image |-> None],
       [question |-> "b", answer |-> "b", question_image |-> None, answer_image |-> None] >>

Absent == <<>>

\* the buckets the loaded documents hold cards in
FileBuckets(folders) ==
    {b \in {<<DEFAULT_FOLDER, "level_1">>, <<DEFAULT_FOLDER, "level_3">>,
            <<"B", "level_1">>} : b[1] \in folders}

\* the cards placed in bucket b, in the order of FileCards
RECURSIVE placed_cards(_, _, _)
placed_cards(place, b, n) ==
    IF n = 0 THEN <<>>
    ELSE IF place[n] = b THEN Append(placed_cards(place, b, n - 1), FileCards[n])
    ELSE placed_cards(place, b, n - 1)

\* the Store that holds each card of FileCards in the bucket place gives it
FileStore(folders, place) ==
    [f \in folders |-> [lvl \in Levels |-> placed_cards(place, <<f, lvl>>, Len(FileCards))]]

\* draw chances saved by the Setup tab: the defaults, all on Learning, all zero
FileDrawChances ==
    {[draw_chances |-> DefaultDrawChances, draw_unit |-> 100],
     [draw_chances |-> [lvl \in Levels |-> IF lvl = "level_1" THEN 100 ELSE 0],
      draw_unit |-> 100],
     [draw_chances |-> [lvl \in Levels |-> 0], draw_unit |-> 1]}

\* folder weights of the Setup tab sliders, in tenths
FileWeights == [FolderNames -> {0, 10}]

StudySelections ==
    {<<DEFAULT_FOLDER>>, <<"B">>, <<DEFAULT_FOLDER, "B">>, <<"B", DEFAULT_FOLDER>>}

SelInit ==
    /\ \E folders \in {{DEFAULT_FOLDER}, FolderNames} :
         \E place \in [1..Len(FileCards) -> FileBuckets(folders) \cup {Absent}] :
            flashcards = FileStore(folders, place)
    /\ level_keys = [f \in DOMAIN flashcards |-> level_order]
    /\ study_folders \in StudySelections
    /\ \E d \in FileDrawChances, w \in FileWeights :
          meta = [draw_chances |-> d.draw_chances, draw_unit |-> d.draw_unit,
                  folder_weights |-> w]
    /\ recently_shown = <<>>
    /\ current = NoTuple
    /\ show_answer = FALSE
    /\ local_file = save_flashcards(flashcards, meta, level_keys)
    /\ drive = NoDrive
    /\ call = [op |-> "init", level |-> None, args |-> None, ret |-> None, tick |-> 0]

\* Practice tab with no current question: result = get_next_question(); the
\* record of the call alternates its tick, so that a call which returns the card
\* of the call before it is a step all the same
GetNextQuestion ==
    /\ \E o \in get_next_question(flashcards, study_folders, meta, recently_shown) :
          /\ current' = o.result
          /\ recently_shown' = o.recently_shown
          /\ call' = [op |-> "get_next_question",
                      level |-> IF o.result = NoTuple THEN None ELSE level_of(o.result),
                      args |-> o.path,
                      ret |-> IF o.result = NoTuple THEN "None" ELSE "tuple",
                      tick |-> 1 - call.tick]
    /\ UNCHANGED <<flashcards, level_keys, study_folders, meta, show_answer, local_file,
                   drive>>

SelNext == GetNextQuestion

SelSpec == SelInit /\ [][SelNext]_vars

\* one call that returns the card at index i of bucket (f, lvl)
ReturnAt(f, lvl, i) ==
    /\ f \in DOMAIN flashcards /\ i < Len(flashcards[f][lvl])
    /\ current' = <<f, lvl, flashcards[f][lvl][i + 1], i>>
    /\ GetNextQuestion

\* the positions that hold the cards of the sessions followed for ever
LivePositions ==
    {<<DEFAULT_FOLDER, "level_1", 0>>, <<DEFAULT_FOLDER, "level_1", 1>>,
     <<DEFAULT_FOLDER, "level_3", 0>>, <<"B", "level_1", 0>>}

\* the sessions whose calls are followed for ever: both folders studied, the
\* first with weight 1.0, draw chances at the defaults or all on Learning
LiveInit ==
    /\ SelInit
    /\ DOMAIN flashcards = FolderNames
    /\ \A f \in FolderNames, lvl \in Levels :
          \A n \in 1..Len(flashcards[f][lvl]) : <<f, lvl, n - 1>> \in LivePositions
    /\ study_folders = <<DEFAULT_FOLDER, "B">>
    /\ meta.folder_weights[DEFAULT_FOLDER] = 10
    /\ meta.draw_unit = 100

\* choice() and random() are fair: a result that the calls can produce again and
\* again is produced again and again
SelFairSpec ==
    /\ LiveInit
    /\ [][SelNext]_vars
    /\ \A p \in LivePositions : SF_vars(ReturnAt(p[1], p[2], p[3]))

----------------------------------------------------------------------------
(* The app: button handlers of the Add and Practice tabs, each followed by the *)
(* script run it triggers                                                       *)

\* the number of cards the folders of the list hold at one level
RECURSIVE level_count(_, _, _, _)
level_count(fc, folders, lvl, n) ==
    IF n = 0 THEN 0
    ELSE level_count(fc, folders, lvl, n - 1) + Len(fc[folders[n]][lvl])

\* get_stats(folders): the count of each level and their total
get_stats(fc, folders) ==
    LET existing == SelectSeq(folders, LAMBDA f : f \in DOMAIN fc)
        stats == [lvl \in Levels |-> level_count(fc, existing, lvl, Len(existing))]
    IN [k \in Levels \cup {"total"} |->
          IF k = "total"
          THEN stats["level_1"] + stats["level_2"] + stats["level_3"] + stats["level_4"]
          ELSE stats[k]]

\* the Practice tab shows a question: some card is not mastered and a current
\* question is set
question_shown(fc, sf, cur) ==
    /\ get_stats(fc, sf)["total"] # 0
    /\ get_stats(fc, sf)["level_4"] # get_stats(fc, sf)["total"]
    /\ cur # NoTuple

\* the Practice tab of one script run: with cards to practise and no current
\* question it asks get_next_question for one
practice_load(fc, sf, m, cur, recent) ==
    IF get_stats(fc, sf)["total"] = 0
    THEN {[current |-> cur, recently_shown |-> recent, path |-> "no_questions"]}
    ELSE IF get_stats(fc, sf)["level_4"] = get_stats(fc, sf)["total"]
    THEN {[current |-> cur, recently_shown |-> recent, path |-> "all_mastered"]}
    ELSE IF cur # NoTuple
    THEN {[current |-> cur, recently_shown |-> recent, path |-> "shown"]}
    ELSE {[current |-> o.result, recently_shown |-> o.recently_shown, path |-> o.path] :
            o \in get_next_question(fc, sf, m, recent)}

\* the script run that follows a handler which left the Store fc and the current
\* question cur; the record of the step names the handler, the level of the card
\* it acted on, what the Practice tab did and the value the Store function returned
Rerun(fc, cur, op, lvl, ret) ==
    \E o \in practice_load(fc, study_folders, meta, cur, recently_shown) :
        /\ current' = o.current
        /\ recently_shown' = o.recently_shown
        /\ call' = [op |-> op, level |-> lvl, args |-> o.path, ret |-> ret]

\* Add tab, button "Add Question"
AddQuestion(question, answer, folder) ==
    /\ TotalCards(flashcards) < MaxCards
    /\ LET out == add_new_flashcard(flashcards, question, answer, folder)
       IN /\ flashcards' = out.fc
          /\ level_keys' = kept_keys(level_keys, out.fc)
          /\ local_file' = IF out.saved
                           THEN save_flashcards(out.fc, meta, kept_keys(level_keys, out.fc))
                           ELSE local_file
          /\ Mirror(out.saved)
          /\ Rerun(out.fc, current, "AddQuestion", "level_1", out.ret)
    /\ UNCHANGED <<study_folders, meta, show_answer>>

\* Practice tab, button "Reveal Answer"
RevealAnswer ==
    /\ question_shown(flashcards, study_folders, current)
    /\ ~show_answer
    /\ show_answer' = TRUE
    /\ Rerun(flashcards, current, "RevealAnswer", level_of(current), None)
    /\ UNCHANGED <<flashcards, level_keys, study_folders, meta, local_file, drive>>

\* what an outcome button leaves behind: an exception of the Store function ends
\* the script run, otherwise the current question is cleared and the script reruns
Report(op, out) ==
    IF out.ret \in {"KeyError", "IndexError"}
    THEN /\ call' = [op |-> op, level |-> level_of(current), args |-> "exception",
                     ret |-> out.ret]
         /\ UNCHANGED <<flashcards, level_keys, local_file, drive, current,
                        recently_shown, show_answer>>
    ELSE /\ flashcards' = out.fc
         /\ level_keys' = kept_keys(level_keys, out.fc)
         /\ local_file' = IF out.saved
                          THEN save_flashcards(out.fc, meta, kept_keys(level_keys, out.fc))
                          ELSE local_file
         /\ Mirror(out.saved)
         /\ show_answer' = FALSE
         /\ Rerun(out.fc, NoTuple, op, level_of(current), out.ret)

\* Practice tab, button "Correct!"
Correct ==
    /\ question_shown(flashcards, study_folders, current)
    /\ show_answer
    /\ Report("Correct", move_card_up(flashcards, folder_of(current),
                                      level_of(current), index_of(current)))
    /\ UNCHANGED <<study_folders, meta>>

\* Practice tab, button "Incorrect"
Incorrect ==
    /\ question_shown(flashcards, study_folders, current)
    /\ show_answer
    /\ Report("Incorrect",
              IF level_of(current) # "level_1"
              THEN move_card_down(flashcards, folder_of(current),
                                  level_of(current), index_of(current))
              ELSE Outcome(flashcards, None, FALSE))
    /\ UNCHANGED <<study_folders, meta>>

Next ==
    \/ \E q \in QuestionInputs, a \in AnswerInputs, f \in DOMAIN flashcards :
          AddQuestion(q, a, f)
    \/ RevealAnswer
    \/ Correct
    \/ Incorrect

Spec == Init /\ [][Next]_vars

----------------------------------------------------------------------------
(* Every Store function called directly, and the reload of the data file *)

\* folder names passed to the Store functions, and typed into the folder form
StoreNames == {DEFAULT_FOLDER, "P/C"}

FolderInputs == StoreNames \cup {" "}

\* target names passed to rename_folder: also one with spaces around it
RenameInputs == FolderInputs \cup {" P/C "}

\* texts typed into the Add form and into the edit form
StoreQuestions == {"a", " "}

\* what the edit form passes: question, answer, question_image, answer_image;
\* None for an image that was not uploaded, else its base64 text
EditInputs ==
    {<<"e", " a ", None, None>>, <<" ", " a ", None, None>>, <<"e", " a ", None, "img">>}

\* A data file is NoTuple when there is none, else <<doc>> with doc standing
\* for its content:
\*   [folders, _meta, key_order]  what save_flashcards writes
\*   [folders, key_order]         folders without a "_meta" entry
\*   [flat]                       a flat JSON object, as the list of its
\*                                <<key, card list>> entries in file order
\*   [json, type]                 any other JSON value, as the value itself,
\*                                with its type: "list" or "dict"
\*   [text]                       text that json.load rejects
card(question, answer, question_image) ==
    [question |-> question, answer |-> answer,
     question_image |-> question_image, answer_image |-> None]

\* data files in the old format: the four levels at the top, no folders; in the
\* second the level keys are not in the order of DICTIONARIES
LegacyFiles ==
    {[flat |-> << <<"level_1", <<>> >>, <<"level_2", <<card("a", "a", "img")>> >>,
                  <<"level_3", <<>> >>, <<"level_4", <<>> >> >>],
     [flat |-> << <<"level_2", <<card("a", "a", "img")>> >>,
                  <<"level_1", <<card("b", "b", None)>> >>,
                  <<"level_3", <<>> >>, <<"level_4", <<>> >> >>]}

\* the keys of a flat document, in file order, and the value under a key
flat_keys(entries) == [n \in 1..Len(entries) |-> entries[n][1]]

flat_get(entries, key) ==
    entries[CHOOSE n \in 1..Len(entries) : entries[n][1] = key][2]

\* "level_1" in data, for a flat document
has_level_1(entries) == \E n \in 1..Len(entries) : entries[n][1] = "level_1"

\* load_flashcards: no file, or one that json.load rejects, gives the default
\* Store; a document with "_meta" gives its folders and "_meta"; a flat document
\* with the key "level_1" is migrated into DEFAULT_FOLDER; any other content is
\* returned as it is
load_flashcards(file) ==
    IF file = NoTuple THEN [f \in {DEFAULT_FOLDER} |-> EmptyFolder]
    ELSE LET data == file[1]
         IN IF "text" \in DOMAIN data THEN [f \in {DEFAULT_FOLDER} |-> EmptyFolder]
            ELSE IF "_meta" \in DOMAIN data
            THEN [k \in (DOMAIN data.folders) \cup {"_meta"} |->
                    IF k = "_meta" THEN data._meta ELSE data.folders[k]]
            ELSE IF "flat" \in DOMAIN data
            THEN IF has_level_1(data.flat)
                 THEN [f \in {DEFAULT_FOLDER} |->
                         [k \in {data.flat[n][1] : n \in 1..Len(data.flat)} |->
                             flat_get(data.flat, k)]]
                 ELSE [k \in {data.flat[n][1] : n \in 1..Len(data.flat)} |->
                         flat_get(data.flat, k)]
            ELSE IF "folders" \in DOMAIN data THEN data.folders
            ELSE data.json

\* the orders of the level keys of the folder dicts that load_flashcards returns
loaded_keys(file) ==
    IF file = NoTuple THEN [f \in {DEFAULT_FOLDER} |-> level_order]
    ELSE LET data == file[1]
         IN IF "key_order" \in DOMAIN data THEN data.key_order
            ELSE IF "flat" \in DOMAIN data /\ has_level_1(data.flat)
            THEN [f \in {DEFAULT_FOLDER} |-> flat_keys(data.flat)]
            ELSE IF "text" \in DOMAIN data THEN [f \in {DEFAULT_FOLDER} |-> level_order]
            ELSE <<>>

\* the lists that hold each element of S once: the orders a dict of these keys
\* can have
Orderings(S) ==
    {q \in [1..Cardinality(S) -> S] : \A x \in S : \E n \in 1..Cardinality(S) : q[n] = x}

\* folder_keys() or [DEFAULT_FOLDER]
study_defaults(fc) ==
    IF folder_keys(fc) = {} THEN {<<DEFAULT_FOLDER>>} ELSE Orderings(folder_keys(fc))

\* session state after construction, with no data file or one of files
Constructed(files) ==
    /\ local_file \in {NoTuple} \cup {<<d>> : d \in files}
    /\ flashcards = with_folder(load_flashcards(local_file), DEFAULT_FOLDER)
    /\ level_keys = kept_keys(loaded_keys(local_file), flashcards)
    /\ drive = NoDrive
    /\ study_folders \in study_defaults(flashcards)
    /\ meta = [draw_chances |-> DefaultDrawChances, draw_unit |-> 100,
               folder_weights |-> [f \in folder_keys(flashcards) |-> 10]]
    /\ recently_shown = <<>>
    /\ current = NoTuple
    /\ show_answer = FALSE
    /\ call = [op |-> "init", level |-> None, args |-> None, ret |-> None]

\* with no data file or one in the old format whose level keys are in the order
\* of DICTIONARIES
StoreInit ==
    Constructed({d \in LegacyFiles : flat_keys(d.flat) = level_order})

\* with no data file or any one in the old format
FolderInit == Constructed(LegacyFiles)

\* sidebar, button "Reload data from file"
Reload ==
    /\ flashcards' = load_flashcards(local_file)
    /\ level_keys' = loaded_keys(local_file)
    /\ study_folders' \in study_defaults(flashcards')
    /\ Rerun(flashcards', current, "Reload", None, None)
    /\ UNCHANGED <<meta, show_answer, local_file, drive>>

DeleteFlashcard(folder, level, index) ==
    /\ Apply("delete_flashcard", level, ArgsKind(flashcards, folder, level, index),
             delete_flashcard(flashcards, folder, level, index))
    /\ UNCHANGED <<study_folders, meta, recently_shown, current, show_answer>>

EditFlashcard(folder, level, index, new_question, new_answer, question_image, answer_image) ==
    /\ Apply("edit_flashcard", level, ArgsKind(flashcards, folder, level, index),
             edit_flashcard(flashcards, folder, level, index, new_question,
                            new_answer, question_image, answer_image))
    /\ UNCHANGED <<study_folders, meta, recently_shown, current, show_answer>>

MoveCardToFolder(from_folder, level, index, to_folder) ==
    /\ Apply("move_card_to_folder", level,
             ArgsKind(flashcards, from_folder, level, index),
             move_card_to_folder(flashcards, from_folder, level, index, to_folder))
    /\ UNCHANGED <<study_folders, meta, recently_shown, current, show_answer>>

MoveCardBetweenFolders(src_folder, level, index, target_folder) ==
    /\ Apply("move_card_between_folders", level,
             ArgsKind(flashcards, src_folder, level, index),
             move_card_between_folders(flashcards, src_folder, level, index,
                                       target_folder))
    /\ UNCHANGED <<study_folders, meta, recently_shown, current, show_answer>>

ResetAllCards(folder) ==
    /\ ApplyWith("reset_all_cards", None, None,
                 reset_all_cards(flashcards, level_keys, folder),
                 fresh_keys(level_keys, flashcards, folder))
    /\ UNCHANGED <<study_folders, meta, recently_shown, current, show_answer>>

DeleteAllCards(folder) ==
    /\ ApplyWith("delete_all_cards", None, None, delete_all_cards(flashcards, folder),
                 fresh_keys(level_keys, flashcards, folder))
    /\ UNCHANGED <<study_folders, meta, recently_shown, current, show_answer>>

CreateFolder(folder_name) ==
    /\ Apply("create_folder", None, None, create_folder(flashcards, folder_name))
    /\ UNCHANGED <<study_folders, meta, recently_shown, current, show_answer>>

DeleteFolder(folder_name) ==
    /\ Apply("delete_folder", None, None, delete_folder(flashcards, folder_name))
    /\ UNCHANGED <<study_folders, meta, recently_shown, current, show_answer>>

RenameFolder(old_name, new_name) ==
    /\ ApplyWith("rename_folder", None, None,
                 rename_folder(flashcards, study_folders, old_name, new_name),
                 renamed_keys(level_keys, flashcards, study_folders, old_name, new_name))
    /\ study_folders' =
          rename_folder(flashcards, study_folders, old_name, new_name).study_folders
    /\ UNCHANGED <<meta, recently_shown, current, show_answer>>

\* the functions that add, delete, edit and move one card between folders, called
\* with any arguments
StoreNext ==
    \/ \E q \in StoreQuestions, a \in AnswerInputs, f \in StoreNames :
          AddNewFlashcard(q, a, f)
    \/ \E f \in StoreNames, lvl \in Levels, i \in Indices : DeleteFlashcard(f, lvl, i)
    \/ \E f \in StoreNames, lvl \in Levels, i \in Indices, e \in EditInputs :
          EditFlashcard(f, lvl, i, e[1], e[2], e[3], e[4])
    \/ \E f \in StoreNames, lvl \in Levels, i \in Indices, t \in StoreNames :
          MoveCardToFolder(f, lvl, i, t)
    \/ \E f \in StoreNames, lvl \in Levels, i \in Indices, t \in StoreNames :
          MoveCardBetweenFolders(f, lvl, i, t)

StoreSpec == StoreInit /\ [][StoreNext]_vars

\* the functions that act on folders, called with any arguments, the reload of
\* the data file, and the function that adds a card
FolderNext ==
    \/ \E q \in StoreQuestions, a \in AnswerInputs, f \in StoreNames :
          AddNewFlashcard(q, a, f)
    \/ \E f \in StoreNames \cup {None} : ResetAllCards(f)
    \/ \E f \in StoreNames \cup {None} : DeleteAllCards(f)
    \/ \E name \in FolderInputs : CreateFolder(name)
    \/ \E name \in StoreNames : DeleteFolder(name)
    \/ \E old \in StoreNames, new \in FolderInputs : RenameFolder(old, new)
    \/ Reload

FolderSpec == FolderInit /\ [][FolderNext]_vars

\* the functions that create, delete and rename folders, called with any names
NameNext ==
    \/ \E name \in FolderInputs : CreateFolder(name)
    \/ \E name \in StoreNames : DeleteFolder(name)
    \/ \E old \in StoreNames, new \in RenameInputs : RenameFolder(old, new)

NameSpec == FolderInit /\ [][NameNext]_vars

----------------------------------------------------------------------------
(* Sessions started on any content of the data file *)

\* the settings of a document, none when it has no "_meta" entry
NoSettings == [k \in {} |-> 0]

\* st.session_state["_meta"] as the start of a session sets it whatever the file
\* holds
session_meta_default(file_meta, fc) ==
    [draw_chances |-> DefaultDrawChances, draw_unit |-> 100,
     folder_weights |-> [f \in folder_keys(fc) |-> 10]]

\* st.session_state["_meta"] as the start of a session sets it: the draw chances
\* and the folder weights of the file where it has them, else the defaults
session_meta(file_meta, fc) ==
    [draw_chances |-> IF "draw_chances" \in DOMAIN file_meta
                      THEN file_meta.draw_chances ELSE DefaultDrawChances,
     draw_unit |-> IF "draw_chances" \in DOMAIN file_meta THEN file_meta.draw_unit ELSE 100,
     folder_weights |-> IF "folder_weights" \in DOMAIN file_meta
                        THEN file_meta.folder_weights
                        ELSE [f \in folder_keys(fc) |-> 10]]

\* isinstance(load_flashcards(), dict)
loads_dict(file) ==
    file = NoTuple \/ "type" \notin DOMAIN file[1] \/ file[1].type = "dict"

\* flashcards.get("_meta", {})
file_meta(fc) == IF "_meta" \in DOMAIN fc THEN fc["_meta"] ELSE NoSettings

\* the Store of a session started on the file: what load_flashcards returns, with
\* the default folder, without "_meta"
session_store(file) ==
    [f \in folder_keys(with_folder(load_flashcards(file), DEFAULT_FOLDER)) |->
        with_folder(load_flashcards(file), DEFAULT_FOLDER)[f]]

\* Setup tab, rendered at the end of a script run: every folder without a weight
\* gets the weight 1.0 in the session's settings
setup_rendered(m, fc) ==
    [draw_chances |-> m.draw_chances, draw_unit |-> m.draw_unit,
     folder_weights |-> [f \in (DOMAIN m.folder_weights) \cup folder_keys(fc) |->
                           IF f \in DOMAIN m.folder_weights THEN m.folder_weights[f]
                           ELSE 10]]

\* the settings of a session started on the file, after a script run that ended
\* before the Setup tab or went through it
started_meta(file) ==
    {session_meta(file_meta(load_flashcards(file)),
                  with_folder(load_flashcards(file), DEFAULT_FOLDER)),
     setup_rendered(session_meta(file_meta(load_flashcards(file)),
                                 with_folder(load_flashcards(file), DEFAULT_FOLDER)),
                    session_store(file))}

\* the documents a session started on the file can write when it saves with no
\* change to the Store
roundtrips(file) ==
    {save_flashcards(session_store(file), m,
                     kept_keys(loaded_keys(file), session_store(file))) :
        m \in started_meta(file)}

\* a folder with one card at Familiar
OneCardFolder == [EmptyFolder EXCEPT !["level_2"] = <<card("a", "a", "img")>>]

\* settings as the Setup tab saves them, with all draws on Learning
SavedSettings(folders) ==
    [draw_chances |-> [lvl \in Levels |-> IF lvl = "level_1" THEN 100 ELSE 0],
     draw_unit |-> 100,
     folder_weights |-> [f \in folders |-> 10]]

\* contents of the data file: the old format with and without the key "level_1",
\* folders without settings, with and without the default folder, documents as
\* save_flashcards writes them, JSON of another shape, and text that is not JSON
DataFiles ==
    LegacyFiles \cup
    {[flat |-> << <<"level_2", <<card("a", "a", "img")>> >>,
                  <<"level_3", <<>> >>, <<"level_4", <<>> >> >>],
     [folders |-> [f \in {DEFAULT_FOLDER} |-> OneCardFolder],
      key_order |-> [f \in {DEFAULT_FOLDER} |-> level_order]],
     [folders |-> [f \in {"P/C"} |-> OneCardFolder],
      key_order |-> [f \in {"P/C"} |-> level_order]],
     [folders |-> [f \in {DEFAULT_FOLDER} |-> OneCardFolder],
      _meta |-> SavedSettings({DEFAULT_FOLDER}),
      key_order |-> [f \in {DEFAULT_FOLDER} |-> level_order]],
     [folders |-> [f \in {"P/C"} |-> OneCardFolder],
      _meta |-> SavedSettings({"P/C"}),
      key_order |-> [f \in {"P/C"} |-> level_order]],
     [json |-> <<>>, type |-> "list"],
     [json |-> [x \in {"x"} |-> 1], type |-> "dict"],
     [text |-> "not json"]}

\* the data file is replaced or removed outside the app
PutFile(file) ==
    /\ local_file' = file
    /\ call' = [op |-> "put_file", level |-> None, args |-> None, ret |-> None]
    /\ UNCHANGED <<flashcards, level_keys, study_folders, meta, recently_shown, current,
                   show_answer, drive>>

\* a new session: the initialization of the session state and the rest of the
\* script run, which ends at a rerun or goes through the Setup tab.  When load_flashcards
\* returns a list, the statement that adds the default folder raises TypeError and
\* the script run ends with the list as the Store and nothing else set
Restart ==
    /\ recently_shown' = <<>>
    /\ current' = NoTuple
    /\ show_answer' = FALSE
    /\ IF loads_dict(local_file)
       THEN /\ flashcards' = session_store(local_file)
            /\ level_keys' = kept_keys(loaded_keys(local_file), flashcards')
            /\ study_folders' \in study_defaults(flashcards')
            /\ meta' \in started_meta(local_file)
            /\ call' = [op |-> "restart", level |-> None, args |-> None, ret |-> None]
       ELSE /\ flashcards' = load_flashcards(local_file)
            /\ level_keys' = <<>>
            /\ study_folders' = <<>>
            /\ meta' = session_meta(NoSettings, <<>>)
            /\ call' = [op |-> "restart", level |-> None, args |-> None,
                        ret |-> "TypeError"]
    /\ UNCHANGED <<local_file, drive>>

\* save_flashcards() called on the session as it is: by a reset of folders whose
\* cards are all at Learning, or by the Setup tab with the settings unchanged;
\* the record of the call tells whether it came right after the start of the
\* session
SaveFlashcards ==
    /\ call.ret # "TypeError"
    /\ local_file' = save_flashcards(flashcards, meta, level_keys)
    /\ Mirror(TRUE)
    /\ call' = [op |-> "save_flashcards", level |-> None,
                args |-> IF call.op = "restart" THEN "after_load" ELSE None,
                ret |-> None]
    /\ UNCHANGED <<flashcards, level_keys, study_folders, meta, recently_shown, current,
                   show_answer>>

LoadNext ==
    \/ \E file \in {NoTuple} \cup {<<d>> : d \in DataFiles} : PutFile(file)
    \/ Restart
    \/ SaveFlashcards

LoadSpec == Init /\ [][LoadNext]_vars

----------------------------------------------------------------------------
(* Progression: promotion and demotion *)

\* the level whose place in the order is one above lvl's
LevelAbove(lvl) == CHOOSE m \in Levels : level_index(m) = level_index(lvl) + 1

\* s with the element at Python index i taken out, the others keeping their order
IsWithoutElement(t, s, i) ==
    /\ Len(t) = Len(s) - 1
    /\ \A n \in 1..Len(t) : t[n] = IF n <= i THEN s[n] ELSE s[n + 1]

\* every bucket other than the two named ones is the same before and after
OtherBucketsKept(F, L, M) ==
    /\ DOMAIN flashcards' = DOMAIN flashcards
    /\ \A G \in DOMAIN flashcards, K \in Levels :
          (G # F \/ K \notin {L, M}) => flashcards'[G][K] = flashcards[G][K]

\* C1: move_card_up(F, L, i) with L below Mastered and 0 <= i < len(F/L) removes
\* exactly the card at position i of F/L, appends that card unchanged to the end
\* of the level immediately above L in F, leaves the other buckets alone and
\* returns True.
C1_PromoteOneStep ==
    [][\A F \in FolderNames, L \in Levels \ {"level_4"}, i \in Indices :
          ( /\ call'.op = "move_card_up" /\ call'.level = L
            /\ MoveCardUp(F, L, i)
            /\ F \in DOMAIN flashcards
            /\ 0 <= i /\ i < Len(flashcards[F][L]) )
          => /\ IsWithoutElement(flashcards'[F][L], flashcards[F][L], i)
             /\ flashcards'[F][LevelAbove(L)] =
                   Append(flashcards[F][LevelAbove(L)], flashcards[F][L][i + 1])
             /\ OtherBucketsKept(F, L, LevelAbove(L))
             /\ call'.ret = "True"]_vars

\* a card was promoted from Familiar out of a bucket that held another card too
C1_Witness ==
    /\ call.op = "move_card_up" /\ call.level = "level_2"
    /\ call.args = "in_range" /\ call.ret = "True"
    /\ \E F \in DOMAIN flashcards :
          Len(flashcards[F]["level_2"]) > 0 /\ Len(flashcards[F]["level_3"]) > 0

\* C2: move_card_down(F, L, i) with L above Learning and 0 <= i < len(F/L) removes
\* exactly the card at position i of F/L and appends it to the end of F's
\* Learning level in one step, leaving the other buckets alone, and returns True.
C2_DemoteToBottom ==
    [][\A F \in FolderNames, L \in Levels \ {"level_1"}, i \in Indices :
          ( /\ call'.op = "move_card_down" /\ call'.level = L
            /\ MoveCardDown(F, L, i)
            /\ F \in DOMAIN flashcards
            /\ 0 <= i /\ i < Len(flashcards[F][L]) )
          => /\ IsWithoutElement(flashcards'[F][L], flashcards[F][L], i)
             /\ flashcards'[F]["level_1"] =
                   Append(flashcards[F]["level_1"], flashcards[F][L][i + 1])
             /\ OtherBucketsKept(F, L, "level_1")
             /\ call'.ret = "True"]_vars

\* a card was demoted from Mastered straight into a Learning level that already
\* held a card
C2_Witness ==
    /\ call.op = "move_card_down" /\ call.level = "level_4"
    /\ call.args = "in_range" /\ call.ret = "True"
    /\ \E F \in DOMAIN flashcards : Len(flashcards[F]["level_1"]) > 1

\* C9: move_card_up on level_4, for any folder (present or not) and any index (in
\* range or not), leaves the Store and the file unchanged and returns False; it
\* raises nothing.
C9_PromoteAtTopIsNoOp ==
    [][\A F \in FolderNames, i \in Indices :
          (call'.op = "move_card_up" /\ MoveCardUp(F, "level_4", i))
          => /\ flashcards' = flashcards
             /\ local_file' = local_file
             /\ call'.ret = "False"]_vars

\* Correct was reported for a card that is at Mastered
C9_Witness ==
    /\ call.op = "move_card_up" /\ call.level = "level_4"
    /\ call.args = "in_range" /\ call.ret = "False"

\* C10: move_card_down on level_1, for any folder and index, leaves the Store and
\* the file unchanged (the card keeps folder, level and position) and returns
\* False.
C10_DemoteAtBottomIsNoOp ==
    [][\A F \in FolderNames, i \in Indices :
          (call'.op = "move_card_down" /\ MoveCardDown(F, "level_1", i))
          => /\ flashcards' = flashcards
             /\ local_file' = local_file
             /\ call'.ret = "False"]_vars

\* Incorrect was reported for the first of two cards at Learning
C10_Witness ==
    /\ call.op = "move_card_down" /\ call.level = "level_1"
    /\ call.args = "in_range" /\ call.ret = "False"
    /\ \E F \in DOMAIN flashcards : Len(flashcards[F]["level_1"]) > 1

----------------------------------------------------------------------------
(* Selector *)

\* the study folders that exist in the Store
ActiveFolders ==
    {study_folders[n] : n \in 1..Len(study_folders)} \cap DOMAIN flashcards

\* every (active folder, level) bucket is empty
ActiveBucketsEmpty ==
    \A f \in ActiveFolders, lvl \in Levels : flashcards[f][lvl] = <<>>

\* the recency keys of the cards of bucket (f, lvl)
BucketKeys(f, lvl) ==
    {recency_key(f, lvl, flashcards[f][lvl][n]) : n \in 1..Len(flashcards[f][lvl])}

\* the keys of the candidate set an outcome was picked from: the chosen bucket
\* in a retry attempt, every card of the active folders in the fallback
CandidateKeys(o) ==
    IF o.path = "retry" THEN BucketKeys(folder_of(o.result), level_of(o.result))
    ELSE UNION {BucketKeys(f, lvl) : f \in ActiveFolders, lvl \in Levels}

\* C3: whatever the random draws, get_next_question returns None only if every
\* (active folder, level) bucket is empty, and returns a card whenever one of them
\* holds a card.
C3_SelectorFindsCard ==
    \A o \in get_next_question(flashcards, study_folders, meta, recently_shown) :
        (o.result = NoTuple) <=> ActiveBucketsEmpty

\* the only card of the active folders is in Confident, no draw chance lies on
\* that level, and the fallback returned it
C3_Witness ==
    /\ call.op = "get_next_question" /\ call.args = "fallback"
    /\ current # NoTuple /\ level_of(current) = "level_3"
    /\ meta.draw_chances["level_3"] = 0
    /\ \A f \in ActiveFolders, lvl \in Levels :
          Len(flashcards[f][lvl]) = IF <<f, lvl>> = <<folder_of(current), "level_3">>
                                    THEN 1 ELSE 0

\* C4: when the candidate set an outcome is picked from holds a card whose key is
\* not in the Recency Window, the returned card's key was not in the window
\* before the call.
C4_PrefersNonRecent ==
    \A o \in get_next_question(flashcards, study_folders, meta, recently_shown) :
        (o.result # NoTuple
           /\ \E key \in CandidateKeys(o) : ~is_recent(key, recently_shown))
        => ~is_recent(recency_key(folder_of(o.result), level_of(o.result),
                                  card_of(o.result)),
                      recently_shown)

\* the Selector returned a card from a bucket whose other card was in the window
C4_Witness ==
    /\ call.op = "get_next_question" /\ current # NoTuple
    /\ Len(recently_shown) >= 2
    /\ LET keys == BucketKeys(folder_of(current), level_of(current))
           was == recently_shown[Len(recently_shown) - 1]
           now == recently_shown[Len(recently_shown)]
       IN was \in keys /\ was # now

\* cards of bucket (f, lvl) differ pairwise in (question, answer)
PairwiseDistinct(f, lvl) ==
    \A i, j \in 1..Len(flashcards[f][lvl]) :
        i # j => <<flashcards[f][lvl][i].question, flashcards[f][lvl][i].answer>> #
                 <<flashcards[f][lvl][j].question, flashcards[f][lvl][j].answer>>

\* C5: two consecutive draws from a bucket that holds more than recent_max cards
\* with pairwise distinct (question, answer) text never return the same card
\* (recent_max >= 2, so the two draws lie within recent_max consecutive draws).
C5_NoRepeatWithinWindow ==
    [][( /\ GetNextQuestion
         /\ recent_max >= 2
         /\ current # NoTuple /\ current' # NoTuple
         /\ folder_of(current') = folder_of(current)
         /\ level_of(current') = level_of(current)
         /\ Len(flashcards[folder_of(current)][level_of(current)]) > recent_max
         /\ PairwiseDistinct(folder_of(current), level_of(current)) )
       => index_of(current') # index_of(current)]_vars

\* an outcome button was pressed and the script run that followed asked
\* get_next_question for the next card and got one
OutcomeThenSelect ==
    /\ call'.op \in {"Correct", "Incorrect"}
    /\ call'.args \in {"retry", "fallback"}
    /\ Correct \/ Incorrect

\* where the Store after the outcome holds the card that was shown: at the end of
\* the level it was moved to, or where it was
JustShownAfter ==
    LET F == folder_of(current)
        L == level_of(current)
    IN IF call'.op = "Correct" /\ call'.ret = "True"
       THEN <<F, LevelAbove(L), Len(flashcards'[F][LevelAbove(L)]) - 1>>
       ELSE IF call'.op = "Incorrect" /\ call'.ret = "True"
       THEN <<F, "level_1", Len(flashcards'[F]["level_1"]) - 1>>
       ELSE <<F, L, index_of(current)>>

\* the second call returned the card that was just shown
ReturnsJustShown ==
    <<folder_of(current'), level_of(current'), index_of(current')>> = JustShownAfter

\* C6 as stated: in the cycle select, show, report an outcome, save, select again,
\* the second call does not return the card just shown while the active folders
\* hold another card.
C6_ExcludesJustShown ==
    [][( /\ OutcomeThenSelect
         /\ get_stats(flashcards', study_folders)["total"] >= 2 )
       => ~ReturnsJustShown]_vars

\* C6 amended: when the outcome left the card at its level (Correct on a Mastered
\* card, Incorrect on a Learning card) and the set the second call picks from (the
\* chosen bucket, or every card of the active folders in the fallback) holds a
\* card whose key is not in the Recency Window, the second call does not return
\* the card just shown.
C6_ExcludesJustShownIfKept ==
    [][( /\ OutcomeThenSelect
         /\ call'.ret # "True"
         /\ \E key \in (IF call'.args = "retry"
                        THEN BucketKeys(folder_of(current'), level_of(current'))
                        ELSE UNION {BucketKeys(f, lvl) :
                                      f \in ActiveFolders, lvl \in Levels}) :
               ~is_recent(key, recently_shown) )
       => ~ReturnsJustShown]_vars

\* Incorrect on a Learning card left it in a bucket of two cards, and the next
\* call drew that bucket and returned the other card
C6_Witness ==
    /\ call.op = "Incorrect" /\ call.level = "level_1" /\ call.args = "retry"
    /\ current # NoTuple /\ level_of(current) = "level_1"
    /\ Len(flashcards[folder_of(current)]["level_1"]) = 2
    /\ Len(recently_shown) = 2
    /\ recently_shown[1] # recently_shown[2]

\* the weights of the folders the weighted pick chooses among
ActiveWeights ==
    [j \in 1..Len(folders_list(flashcards, study_folders)) |->
        weight_of(meta.folder_weights, folders_list(flashcards, study_folders)[j])]

\* C7: while some active folder has weight > 0, a retry attempt (whose folder is
\* the one weighted_choice returned) never returns a card of a folder of weight
\* <= 0, whatever the draw; when all weights are <= 0 every folder can be picked.
C7_ZeroWeightNeverPicked ==
    /\ [][( /\ GetNextQuestion
            /\ call'.args = "retry"
            /\ \E j \in DOMAIN ActiveWeights : ActiveWeights[j] > 0 )
          => weight_of(meta.folder_weights, folder_of(current')) > 0]_vars
    /\ []( (\A j \in DOMAIN ActiveWeights : ActiveWeights[j] <= 0)
             => pickable_folders(folders_list(flashcards, study_folders),
                                 ActiveWeights)
                  = ActiveFolders )

\* the card at index i of bucket (f, lvl) is the one the last call returned
Shown(f, lvl, i) ==
    /\ call.op = "get_next_question" /\ current # NoTuple
    /\ folder_of(current) = f /\ level_of(current) = lvl /\ index_of(current) = i

\* bucket (f, lvl) of an active folder holds a card at index i
HoldsCard(f, lvl, i) == f \in ActiveFolders /\ i < Len(flashcards[f][lvl])

\* a retry attempt can choose bucket (f, lvl), or can choose an empty bucket, so
\* that ten such attempts lead to the fallback over all cards
CanReach(f, lvl) ==
    LET picks == attempt_picks(flashcards, study_folders, meta)
    IN <<f, lvl>> \in picks \/ \E p \in picks : flashcards[p[1]][p[2]] = <<>>

----------------------------------------------------------------------------
(* Store invariants and the contracts of the Store functions *)

\* C11: in every reachable state every key of the Store is a folder that maps to
\* exactly the four level keys level_1..level_4.
C11_FoldersHaveFourLevels ==
    \A k \in DOMAIN flashcards : k # "_meta" /\ DOMAIN flashcards[k] = Levels

\* C12: the default folder "All Cards" exists in the Store in every reachable
\* state, whatever card and folder operations and reloads have run.
C12_DefaultFolderExists ==
    DEFAULT_FOLDER \in DOMAIN flashcards

StoreOps ==
    {"add_new_flashcard", "delete_flashcard", "edit_flashcard", "move_card_to_folder",
     "move_card_between_folders", "create_folder", "rename_folder", "delete_folder",
     "move_card_up", "move_card_down"}

\* C13: a Store operation that returns False had no effect: the Store and the
\* persisted document are exactly as they were before the call.
C13_FailureHasNoEffect ==
    [][(call'.op \in StoreOps /\ call'.ret = "False")
          => (flashcards' = flashcards /\ local_file' = local_file)]_vars

PositionOps ==
    {"delete_flashcard", "edit_flashcard", "move_card_to_folder",
     "move_card_between_folders", "move_card_up", "move_card_down"}

\* C14: every operation taking a (folder, level, index) position, promotion and
\* demotion included, answers an absent folder or an index outside 0..len-1 by
\* returning False with the Store unchanged; it never raises.
C14_InvalidPositionFails ==
    [][(call'.op \in PositionOps /\ call'.args \in {"no_folder", "out_of_range", "negative"})
          => (call'.ret = "False" /\ flashcards' = flashcards)]_vars

MutatingOps ==
    StoreOps \cup {"reset_all_cards", "delete_all_cards"}

\* the folders a document decodes to
persisted(file) ==
    [f \in folder_keys(load_flashcards(file)) |-> load_flashcards(file)[f]]

\* C15: after every completed mutating operation the persisted document holds
\* exactly the in-memory Store, so no state between two operations has an unsaved
\* Store change.
C15_FileMatchesStore ==
    call.op \in MutatingOps => persisted(local_file) = flashcards

\* the buckets of folder F before the call, empty ones if F is not there yet
BucketBefore(F, K) ==
    IF F \in DOMAIN flashcards THEN flashcards[F][K] ELSE <<>>

\* C16: add_new_flashcard with a question and an answer that are non-empty after
\* trimming appends the new card to the end of level_1 of the target folder,
\* creating that folder with four empty levels if it is absent, changes no other
\* bucket and returns True; the card never starts at another level.
C16_AddAppendsToLearning ==
    [][\A q \in StoreQuestions, a \in AnswerInputs, F \in StoreNames :
          ( /\ call'.op = "add_new_flashcard"
            /\ AddNewFlashcard(q, a, F)
            /\ strip(q) # "" /\ strip(a) # "" )
          => /\ DOMAIN flashcards' = (DOMAIN flashcards) \cup {F}
             /\ flashcards'[F]["level_1"] =
                   Append(BucketBefore(F, "level_1"),
                          [question |-> strip(q), answer |-> strip(a),
                           question_image |-> None, answer_image |-> None])
             /\ \A K \in Levels \ {"level_1"} : flashcards'[F][K] = BucketBefore(F, K)
             /\ \A G \in (DOMAIN flashcards) \ {F} : flashcards'[G] = flashcards[G]
             /\ call'.ret = "True"]_vars

\* a card was added to a folder that was created for it, next to another folder
\* that holds a card above Learning
C16_Witness ==
    /\ call.op = "add_new_flashcard" /\ call.ret = "True"
    /\ "P/C" \in DOMAIN flashcards
    /\ Len(flashcards["P/C"]["level_1"]) = 1
    /\ Len(flashcards[DEFAULT_FOLDER]["level_2"]) = 1

\* C17: no card-writing operation stores blank text, so in every reachable state
\* every card of the Store has a non-empty question and a non-empty answer.
C17_NoBlankCardText ==
    \A F \in folder_keys(flashcards), K \in Levels :
       \A n \in 1..Len(flashcards[F][K]) :
          flashcards[F][K][n].question # "" /\ flashcards[F][K][n].answer # ""

\* C18: delete_flashcard(F, L, i) with F present and 0 <= i < len(F/L) removes
\* exactly the card at position i, keeps the order of the remaining cards of that
\* bucket and returns True; with F absent or i negative or >= len(F/L) it returns
\* False and changes nothing.
C18_DeleteRemovesExactlyOne ==
    [][\A F \in StoreNames, L \in Levels, i \in Indices :
          (call'.op = "delete_flashcard" /\ call'.level = L /\ DeleteFlashcard(F, L, i))
          => IF F \in DOMAIN flashcards /\ 0 <= i /\ i < Len(flashcards[F][L])
             THEN /\ IsWithoutElement(flashcards'[F][L], flashcards[F][L], i)
                  /\ OtherBucketsKept(F, L, L)
                  /\ call'.ret = "True"
             ELSE /\ flashcards' = flashcards
                  /\ local_file' = local_file
                  /\ call'.ret = "False"]_vars

\* a card was deleted from the Learning bucket of the default folder, which is the
\* only folder there has ever been, and the edited card of that bucket remains
C18_Witness ==
    /\ call.op = "delete_flashcard" /\ call.level = "level_1" /\ call.ret = "True"
    /\ DOMAIN flashcards = {DEFAULT_FOLDER}
    /\ Len(flashcards[DEFAULT_FOLDER]["level_1"]) = 1
    /\ flashcards[DEFAULT_FOLDER]["level_1"][1].question = "e"

\* C19: edit_flashcard on a valid position updates the question and the answer of
\* that card in place: the folders, the length of every bucket and every other
\* card stay as they were, and an image argument of None keeps the card's image
\* for that field while a given image replaces it.
C19_EditInPlace ==
    [][\A F \in StoreNames, L \in Levels, i \in Indices, e \in EditInputs :
          ( /\ call'.op = "edit_flashcard" /\ call'.level = L
            /\ F \in DOMAIN flashcards
            /\ 0 <= i /\ i < Len(flashcards[F][L])
            /\ EditFlashcard(F, L, i, e[1], e[2], e[3], e[4]) )
          => /\ DOMAIN flashcards' = DOMAIN flashcards
             /\ \A G \in DOMAIN flashcards, K \in Levels :
                   /\ Len(flashcards'[G][K]) = Len(flashcards[G][K])
                   /\ \A n \in 1..Len(flashcards[G][K]) :
                         (G # F \/ K # L \/ n # i + 1)
                            => flashcards'[G][K][n] = flashcards[G][K][n]
             /\ flashcards'[F][L][i + 1] =
                   [question |-> strip(e[1]), answer |-> strip(e[2]),
                    question_image |-> IF e[3] = None
                                       THEN flashcards[F][L][i + 1].question_image
                                       ELSE e[3],
                    answer_image |-> IF e[4] = None
                                     THEN flashcards[F][L][i + 1].answer_image
                                     ELSE e[4]]
             /\ call'.ret = "True"]_vars

\* the card that came with a question image was edited: it kept that image, took
\* the answer image it was given, and the card beside it in another bucket stayed
C19_Witness ==
    /\ call.op = "edit_flashcard" /\ call.level = "level_2" /\ call.ret = "True"
    /\ Len(flashcards[DEFAULT_FOLDER]["level_2"]) = 1
    /\ flashcards[DEFAULT_FOLDER]["level_2"][1].question = "e"
    /\ flashcards[DEFAULT_FOLDER]["level_2"][1].question_image = "img"
    /\ flashcards[DEFAULT_FOLDER]["level_2"][1].answer_image = "img"
    /\ Len(flashcards[DEFAULT_FOLDER]["level_1"]) = 1

\* C20: each move-to-folder entry point, called with a valid source position
\* (F present, 0 <= i < len(F/L)) and another folder T, removes the card from F/L
\* and appends it to T at the same level L, creating T with four empty levels if
\* it does not exist, and returns True.
C20_MoveCreatesDestination ==
    [][\A F \in StoreNames, L \in Levels, i \in Indices, T \in StoreNames :
          ( /\ call'.op \in {"move_card_to_folder", "move_card_between_folders"}
            /\ call'.level = L
            /\ T # F
            /\ F \in DOMAIN flashcards
            /\ 0 <= i /\ i < Len(flashcards[F][L])
            /\ \/ call'.op = "move_card_to_folder" /\ MoveCardToFolder(F, L, i, T)
               \/ call'.op = "move_card_between_folders"
                     /\ MoveCardBetweenFolders(F, L, i, T) )
          => /\ call'.ret = "True"
             /\ DOMAIN flashcards' = (DOMAIN flashcards) \cup {T}
             /\ IsWithoutElement(flashcards'[F][L], flashcards[F][L], i)
             /\ flashcards'[T][L] = Append(BucketBefore(T, L), flashcards[F][L][i + 1])]_vars

----------------------------------------------------------------------------
(* Reset, folder operations and the recency window *)

\* the cards of folder F before the step, level by level from Learning to Mastered
InLevelOrder(F) ==
    flashcards[F]["level_1"] \o flashcards[F]["level_2"]
       \o flashcards[F]["level_3"] \o flashcards[F]["level_4"]

\* C21: after reset_all_cards, for one folder or for all, the Learning level of
\* each reset folder is its former Learning, Familiar, Confident and Mastered
\* levels one after the other, each in its own order, and its other three levels
\* are empty; also for a Store loaded from a data file.
C21_ResetConcatenatesInLevelOrder ==
    [][\A folder \in StoreNames \cup {None} :
          (call'.op = "reset_all_cards" /\ ResetAllCards(folder))
          => \A F \in replaced(flashcards, folder) :
                /\ flashcards'[F]["level_1"] = InLevelOrder(F)
                /\ \A K \in Levels \ {"level_1"} : flashcards'[F][K] = <<>>]_vars

\* the positions of folder value levels that hold card c
Places(levels, c) ==
    {p \in Levels \X (1..(2 * MaxCards)) : p[2] <= Len(levels[p[1]]) /\ levels[p[1]][p[2]] = c}

\* the cards of a folder value
CardsIn(levels) ==
    {levels[p[1]][p[2]] : p \in {q \in Levels \X (1..(2 * MaxCards)) : q[2] <= Len(levels[q[1]])}}

\* C22: reset_all_cards keeps the cards of each reset folder, every card with its
\* field values and as many times as before, and leaves the folders that are not
\* reset as they were.
C22_ResetKeepsCards ==
    [][\A folder \in StoreNames \cup {None} :
          (call'.op = "reset_all_cards" /\ ResetAllCards(folder))
          => /\ DOMAIN flashcards' = DOMAIN flashcards
             /\ \A F \in DOMAIN flashcards :
                   IF F \in replaced(flashcards, folder)
                   THEN \A c \in CardsIn(flashcards[F]) \cup CardsIn(flashcards'[F]) :
                           Cardinality(Places(flashcards'[F], c)) =
                              Cardinality(Places(flashcards[F], c))
                   ELSE flashcards'[F] = flashcards[F]]_vars

\* a reset brought the card that was at Familiar, with its image, into the
\* Learning level next to another card
C22_Witness ==
    /\ call.op = "reset_all_cards"
    /\ Len(flashcards[DEFAULT_FOLDER]["level_1"]) = 2
    /\ \E n \in 1..2 : flashcards[DEFAULT_FOLDER]["level_1"][n].question_image = "img"

\* C23: rename_folder returns False and changes nothing when the target name is
\* a folder of the Store or is empty after trimming, and otherwise the folder is
\* stored under the trimmed target name; delete_folder returns False and changes
\* nothing for the default folder.
C23_RenameAndDeleteRefusals ==
    [][/\ \A old \in StoreNames, new \in RenameInputs :
            (call'.op = "rename_folder" /\ RenameFolder(old, new))
            => IF strip(new) = "" \/ new \in DOMAIN flashcards
               THEN call'.ret = "False" /\ flashcards' = flashcards
               ELSE call'.ret = "True"
                    => /\ strip(new) \in DOMAIN flashcards'
                       /\ flashcards'[strip(new)] = flashcards[old]
                       /\ DOMAIN flashcards' =
                             ((DOMAIN flashcards) \ {old}) \cup {strip(new)}
       /\ (call'.op = "delete_folder" /\ DeleteFolder(DEFAULT_FOLDER))
            => call'.ret = "False" /\ flashcards' = flashcards]_vars

\* the key of the card the call returned
ReturnedKey == recency_key(folder_of(current'), level_of(current'), card_of(current'))

\* t is s without its first d entries
IsWithoutOldest(t, s, d) == d >= 0 /\ t = SubSeq(s, d + 1, Len(s))

\* C24: the Recency Window never holds more than recent_max keys after a call of
\* get_next_question; a call that returns a card appends the card's key as the
\* newest entry and drops entries from the oldest end only, and only as many as
\* the capacity requires; a call that returns no card leaves the window as it was.
C24_WindowBounded ==
    [][GetNextQuestion
       => /\ Len(recently_shown') <= recent_max
          /\ IF call'.ret = "tuple"
             THEN /\ recently_shown'[Len(recently_shown')] = ReturnedKey
                  /\ IsWithoutOldest(recently_shown', Append(recently_shown, ReturnedKey),
                                     Len(recently_shown) + 1 - Len(recently_shown'))
                  /\ Len(recently_shown') = IF Len(recently_shown) < recent_max
                                            THEN Len(recently_shown) + 1 ELSE recent_max
             ELSE recently_shown' = recently_shown]_vars

\* the window is full after a call whose number is of the other parity than the
\* capacity, so after more calls than the window holds keys: a key was evicted
C24_Witness ==
    /\ call.op = "get_next_question"
    /\ call.ret = "tuple"
    /\ Len(recently_shown) = recent_max
    /\ call.tick = (recent_max + 1) % 2
    /\ recently_shown[1] # recently_shown[recent_max]

----------------------------------------------------------------------------
(* The level walk and the retry loop of the Selector *)

\* the cumulative chance of the first n levels reaches the draw k / DrawGrid
Reaches(n, k) == k * meta.draw_unit <= DrawGrid * cumulative(meta, n)

\* lvl is the first level in the fixed order whose cumulative chance reaches the
\* draw k / DrawGrid, or Mastered when none does
IsFirstReaching(lvl, k) ==
    IF \E n \in 1..4 : Reaches(n, k)
    THEN /\ Reaches(level_index(lvl) + 1, k)
         /\ \A n \in 1..level_index(lvl) : ~Reaches(n, k)
    ELSE lvl = "level_4"

\* C29: for every draw r in [0,1) the level an attempt chooses is the first of
\* Learning, Familiar, Confident, Mastered whose cumulative draw chance is >= r,
\* and Mastered when no cumulative chance reaches r; a card returned by an
\* attempt of the loop is at a level chosen so for some draw.
C29_LevelByCumulativeChance ==
    [][GetNextQuestion
       => /\ \A k \in Draws :
               IsFirstReaching(chosen_level(level_sums(meta, 4), meta.draw_unit, k), k)
          /\ call'.args = "retry" /\ call'.ret = "tuple"
               => \E k \in Draws : IsFirstReaching(level_of(current'), k)]_vars

\* an attempt returned a Confident card under the default chances: its draw was
\* above the cumulative chance of Familiar
C29_Witness ==
    /\ call.op = "get_next_question"
    /\ call.args = "retry"
    /\ call.level = "level_3"
    /\ meta.draw_chances = DefaultDrawChances
    /\ \E k \in Draws : IsFirstReaching("level_3", k) /\ ~Reaches(2, k)

\* the ends of the loop of a call made in the present state
LoopEnds == loop_ends(flashcards, study_folders, meta)

\* the buckets an attempt of a call made in the present state can choose
AttemptPicks == attempt_picks(flashcards, study_folders, meta)

\* C30: a call of get_next_question ends after at most 10 attempts: an attempt
\* that chooses a bucket with cards returns one of its cards at once, so that an
\* end at a later attempt comes after attempts that chose empty buckets only; the
\* pass over all cards of the active folders is made once, after exactly 10
\* attempts that chose empty buckets, and returns a card or None.
C30_SelectorTerminates ==
    [][GetNextQuestion
       => \A ends \in {LoopEnds}, picks \in {AttemptPicks} :
            \A finds \in {\E p \in picks : flashcards[p[1]][p[2]] # <<>>},
               misses \in {\E p \in picks : flashcards[p[1]][p[2]] = <<>>} :
               /\ \A e \in ends :
                     /\ e[2] \in 1..MaxAttempts
                     /\ e[1] = "fallback" => e[2] = MaxAttempts
                     /\ e[2] > 1 => misses
                     /\ e[1] = "retry" => finds
               /\ call'.args \in IF ActiveFolders = {} THEN {"unavailable"}
                                  ELSE {e[1] : e \in ends}
               /\ call'.args = "retry"
                     => /\ call'.ret = "tuple"
                        /\ <<folder_of(current'), level_of(current')>> \in picks
               /\ call'.args = "fallback"
                     => /\ <<"fallback", MaxAttempts>> \in ends
                        /\ (call'.ret = "None") = ActiveBucketsEmpty
                        /\ recently_shown' \in {recently_shown} \cup
                              {record_shown(recently_shown, key) :
                                 key \in UNION {BucketKeys(f, lvl) :
                                                  f \in ActiveFolders, lvl \in Levels}}]_vars

\* a call went through 10 attempts that chose empty buckets and returned a card
\* from the pass over all cards, in a state where an attempt could have found one
C30_Witness ==
    /\ call.op = "get_next_question"
    /\ call.args = "fallback"
    /\ call.ret = "tuple"
    /\ <<"retry", 1>> \in LoopEnds
    /\ <<"retry", MaxAttempts>> \in LoopEnds
    /\ <<"fallback", MaxAttempts>> \in LoopEnds

----------------------------------------------------------------------------
(* The Drive mirror of the local save *)

\* what a call that ran save_flashcards leaves behind, whatever the upload did:
\* the local file holds the Store after the call, the call returned the value
\* ret of the Store function, one upload was begun, and either the warning is
\* shown and the Drive file is as before, or the Drive file holds the Store
SavedWhateverTheMirror(ret) ==
    /\ local_file' = save_flashcards(flashcards', meta, level_keys')
    /\ call'.ret = ret
    /\ drive'.attempts = 1
    /\ drive'.file = IF drive'.warning THEN left_behind(drive.file) ELSE "uploaded"

----------------------------------------------------------------------------
(* Loading, migration and the round trip through the data file *)

DefaultStore == [f \in {DEFAULT_FOLDER} |-> EmptyFolder]

\* the file holds text that is not JSON, or JSON that is neither folders of
\* levels of cards nor levels of cards
Malformed(file) ==
    file # NoTuple /\ ("text" \in DOMAIN file[1] \/ "json" \in DOMAIN file[1])

\* C25: load_flashcards does not raise, and returns the default Store, a single
\* folder "All Cards" with four empty levels, when there is no data file and when
\* the file's content is not a document of folders, levels and cards or of the
\* old flat form; the session then starts on that Store.
C25_LoadDegradesToDefault ==
    [][(Restart /\ (local_file = NoTuple \/ Malformed(local_file)))
       => /\ load_flashcards(local_file) = DefaultStore
          /\ call'.ret # "TypeError"
          /\ flashcards' = DefaultStore]_vars

\* the document is a flat JSON object of card lists, without folders
FlatDoc(file) == file # NoTuple /\ "flat" \in DOMAIN file[1]

\* the document holds folders
Foldered(file) == file # NoTuple /\ "folders" \in DOMAIN file[1]

\* C26: a session started on a flat document {level: [cards]} has the single
\* folder "All Cards", which holds under every level of the document its cards,
\* unchanged and in order; a session started on a document with folders has each
\* folder of the document as it is there, not wrapped in another folder.
C26_LegacyMigration ==
    [][Restart
       => /\ FlatDoc(local_file)
               => /\ DOMAIN flashcards' = {DEFAULT_FOLDER}
                  /\ DOMAIN flashcards'[DEFAULT_FOLDER] =
                        {local_file[1].flat[n][1] : n \in 1..Len(local_file[1].flat)}
                  /\ \A n \in 1..Len(local_file[1].flat) :
                        flashcards'[DEFAULT_FOLDER][local_file[1].flat[n][1]] =
                           local_file[1].flat[n][2]
          /\ Foldered(local_file)
               => /\ DOMAIN flashcards' = (DOMAIN local_file[1].folders) \cup {DEFAULT_FOLDER}
                  /\ \A f \in DOMAIN local_file[1].folders :
                        flashcards'[f] = local_file[1].folders[f]]_vars

\* the JSON object of a document of folders or of the old flat form: its
\* top-level keys with their values
document(file) ==
    IF "flat" \in DOMAIN file[1]
    THEN [k \in {file[1].flat[n][1] : n \in 1..Len(file[1].flat)} |->
            flat_get(file[1].flat, k)]
    ELSE IF "_meta" \in DOMAIN file[1]
    THEN [k \in (DOMAIN file[1].folders) \cup {"_meta"} |->
            IF k = "_meta" THEN file[1]._meta ELSE file[1].folders[k]]
    ELSE file[1].folders

\* save_flashcards() runs right after the start of a session on a document of
\* folders or of the old flat form
SaveAfterLoad ==
    /\ call.op = "restart"
    /\ FlatDoc(local_file) \/ Foldered(local_file)
    /\ SaveFlashcards

\* the document has settings with a weight for every folder, and the default
\* folder
Complete(file) ==
    /\ Foldered(file)
    /\ "_meta" \in DOMAIN file[1]
    /\ DEFAULT_FOLDER \in DOMAIN file[1].folders
    /\ DOMAIN file[1].folders \subseteq DOMAIN file[1]._meta.folder_weights

\* C27 as stated: a session started on the persisted document that saves with no
\* change in between writes a document identical to the one it loaded, and doing
\* the same on the written document writes it again unchanged.
C27_RoundTripIdentical ==
    [][SaveAfterLoad
       => /\ document(local_file') = document(local_file)
          /\ roundtrips(local_file') = {local_file'}]_vars

\* the settings the loaded document has, or the defaults for the folders
LoadedSettings(file, folders) ==
    IF "_meta" \in DOMAIN file[1] THEN file[1]._meta
    ELSE [draw_chances |-> DefaultDrawChances, draw_unit |-> 100,
          folder_weights |-> [f \in folders |-> 10]]

\* settings new are settings old with, possibly, the weight 1.0 for folders that
\* old gives no weight
CompletedFrom(new, old, folders) ==
    /\ new.draw_chances = old.draw_chances
    /\ new.draw_unit = old.draw_unit
    /\ DOMAIN old.folder_weights \subseteq DOMAIN new.folder_weights
    /\ \A f \in DOMAIN new.folder_weights :
          IF f \in DOMAIN old.folder_weights
          THEN new.folder_weights[f] = old.folder_weights[f]
          ELSE f \in folders /\ new.folder_weights[f] = 10

\* C27 amended: the document written holds the folders the loaded document
\* decodes to, with their cards in order and with their fields, and the default
\* folder with four empty levels when the loaded document lacks it; its settings
\* are those of the loaded document, or the default draw chances and the weight
\* 1.0 for every folder when the loaded document has none, to which the weight
\* 1.0 may be added for folders without a weight.  It is identical to the loaded
\* document when that has the default folder and settings with a weight for
\* every folder; load-then-save on the written document changes nothing but,
\* possibly, such added weights, and nothing once every folder has a weight.
C27_RoundTripNormalForm ==
    [][SaveAfterLoad
       => /\ local_file'[1].folders = with_folder(persisted(local_file), DEFAULT_FOLDER)
          /\ CompletedFrom(local_file'[1]._meta,
                           LoadedSettings(local_file, DOMAIN local_file'[1].folders),
                           DOMAIN local_file'[1].folders)
          /\ Complete(local_file) => document(local_file') = document(local_file)
          /\ \A w \in roundtrips(local_file') :
                /\ w[1].folders = local_file'[1].folders
                /\ w[1].key_order = local_file'[1].key_order
                /\ CompletedFrom(w[1]._meta, local_file'[1]._meta, DOMAIN w[1].folders)
                /\ Complete(local_file') => w = local_file']_vars

\* a session loaded a document with saved settings and without the default
\* folder, went through the Setup tab and saved: the file has the folder of the
\* document, the default folder, the saved draw chances and a weight for both
\* folders, and load-then-save writes it again as it is
C27_Witness ==
    /\ call.op = "save_flashcards"
    /\ call.args = "after_load"
    /\ DOMAIN local_file[1].folders = {DEFAULT_FOLDER, "P/C"}
    /\ local_file[1]._meta.draw_chances = SavedSettings({"P/C"}).draw_chances
    /\ Complete(local_file)
    /\ roundtrips(local_file) = {local_file}

----------------------------------------------------------------------------
(* The Practice tab with the Manage tab used in between *)

\* Manage tab, button "Delete" of a listed card, and the script run it triggers;
\* the current question of the Practice tab stays as it is
ManageDelete(folder, level, index) ==
    /\ folder \in folder_keys(flashcards)
    /\ in_bounds(flashcards[folder][level], index)
    /\ LET out == delete_flashcard(flashcards, folder, level, index)
       IN /\ flashcards' = out.fc
          /\ level_keys' = kept_keys(level_keys, out.fc)
          /\ local_file' = IF out.saved
                           THEN save_flashcards(out.fc, meta, kept_keys(level_keys, out.fc))
                           ELSE local_file
          /\ Mirror(out.saved)
          /\ Rerun(out.fc, current, "ManageDelete", level, out.ret)
    /\ UNCHANGED <<study_folders, meta, show_answer>>

PracticeNext ==
    \/ \E q \in QuestionInputs, a \in AnswerInputs, f \in DOMAIN flashcards :
          AddQuestion(q, a, f)
    \/ RevealAnswer
    \/ Correct
    \/ Incorrect
    \/ \E f \in FolderNames, lvl \in Levels, i \in 0..(MaxCards - 1) : ManageDelete(f, lvl, i)

PracticeSpec == Init /\ [][PracticeNext]_vars

\* C31: when Correct or Incorrect moves a card to another level, the card it
\* takes out of its bucket is the card that was displayed, also when a card was
\* deleted in the Manage tab between the Selector call and the report.
C31_ReportMovesDisplayedCard ==
    [][((Correct \/ Incorrect) /\ call'.ret = "True")
       => flashcards[folder_of(current)][level_of(current)][index_of(current) + 1]
             = card_of(current)]_vars

----------------------------------------------------------------------------
(* What the Selector returns and what it leaves alone *)

\* C32: when get_next_question returns (folder, level, card, index), the folder
\* is one of the study folders and a folder of the Store, and the card at position
\* index of the folder's level is the returned card; the call changes neither the
\* Store nor the sampling settings nor the data file, only the Recency Window.
C32_ReturnsCardAtItsPosition ==
    [][GetNextQuestion
       => /\ flashcards' = flashcards
          /\ meta' = meta
          /\ study_folders' = study_folders
          /\ local_file' = local_file
          /\ call'.ret = "tuple"
               => /\ \E n \in 1..Len(study_folders) : study_folders[n] = folder_of(current')
                  /\ folder_of(current') \in DOMAIN flashcards'
                  /\ in_bounds(flashcards'[folder_of(current')][level_of(current')],
                               index_of(current'))
                  /\ flashcards'[folder_of(current')][level_of(current')]
                                [index_of(current') + 1] = card_of(current')]_vars

\* the call returned the second card of a bucket of folder "B", which is not the
\* first study folder, and put its key into the window
C32_Witness ==
    /\ call.op = "get_next_question"
    /\ call.ret = "tuple"
    /\ folder_of(current) = "B"
    /\ study_folders = <<DEFAULT_FOLDER, "B">>
    /\ index_of(current) = 1
    /\ flashcards["B"][level_of(current)][2] = card_of(current)
    /\ flashcards["B"][level_of(current)][1] # card_of(current)
    /\ recently_shown # <<>>

----------------------------------------------------------------------------
(* The cards of the Store across the functions that move cards and folders *)

\* new names typed into the rename form: also the key of the settings
CardsTargets == FolderInputs \cup {"_meta"}

\* number of cards under all keys of the Store
Held(fc) ==
    Cardinality({p \in (DOMAIN fc) \X Levels \X (1..MaxCards) : p[3] <= Len(fc[p[1]][p[2]])})

\* add_new_flashcard while the Store holds fewer than MaxCards cards under all
\* its keys
AddCard(question, answer, folder) ==
    /\ Held(flashcards) < MaxCards
    /\ AddNewFlashcard(question, answer, folder)

\* the functions that add, promote, demote, move and reset cards and rename
\* folders, called with any arguments
CardsNext ==
    \/ \E q \in StoreQuestions, a \in AnswerInputs, f \in StoreNames : AddCard(q, a, f)
    \/ \E f \in StoreNames, lvl \in Levels, i \in Indices : MoveCardUp(f, lvl, i)
    \/ \E f \in StoreNames, lvl \in Levels, i \in Indices : MoveCardDown(f, lvl, i)
    \/ \E f \in StoreNames, lvl \in Levels, i \in Indices, t \in StoreNames :
          MoveCardToFolder(f, lvl, i, t)
    \/ \E f \in StoreNames, lvl \in Levels, i \in Indices, t \in StoreNames :
          MoveCardBetweenFolders(f, lvl, i, t)
    \/ \E f \in StoreNames \cup {None} : ResetAllCards(f)
    \/ \E old \in StoreNames, new \in CardsTargets : RenameFolder(old, new)

CardsSpec == Init /\ [][CardsNext]_vars

\* the places of the folders of a Store that hold card c: one per copy
Copies(fc, c) ==
    {p \in folder_keys(fc) \X Levels \X (1..(2 * MaxCards)) : p[3] <= Len(fc[p[1]][p[2]]) /\ fc[p[1]][p[2]][p[3]] = c}

\* the cards of the folders of a Store
StoreCards(fc) == UNION {CardsIn(fc[f]) : f \in folder_keys(fc)}

\* the functions that the claim says keep every card
Conserving ==
    {"move_card_up", "move_card_down", "move_card_to_folder", "move_card_between_folders", "reset_all_cards", "rename_folder"}

\* C33: promote, demote, move-to-folder, reset and folder rename never create,
\* duplicate or lose a card: after each of them every card, by its field values,
\* is in the folders of the Store as many times as before.
C33_CardsConserved ==
    [][call'.op \in Conserving
       => \A c \in StoreCards(flashcards) \cup StoreCards(flashcards') :
             Cardinality(Copies(flashcards', c)) = Cardinality(Copies(flashcards, c))]_vars

----------------------------------------------------------------------------
(* How a card rises through the levels *)

\* the highest level, 1 to 4, at which the folders of a Store hold card c; 0 when
\* they do not hold it
Top(fc, c) ==
    CHOOSE n \in 0..Len(level_order) :
       /\ n > 0 => \E p \in Copies(fc, c) : level_index(p[2]) + 1 = n
       /\ \A p \in Copies(fc, c) : level_index(p[2]) + 1 <= n

\* the cards, by field values, that a level holds over all folders, each with
\* the number of its copies
AtLevel(fc, lvl) ==
    [c \in StoreCards(fc) |-> Cardinality({p \in Copies(fc, c) : p[2] = lvl})]

\* move_card_to_folder and move_card_between_folders leave every card at its
\* level
MovesKeepLevel ==
    [][call'.op \in {"move_card_to_folder", "move_card_between_folders"}
       => \A lvl \in Levels : AtLevel(flashcards', lvl) = AtLevel(flashcards, lvl)]_vars

\* C34: a card reaches Mastered only by earned promotions: whenever a card of
\* the Store is found at a higher level than before, the step is a Correct
\* report made while that card was the displayed card, and the card rose by one
\* level; so from Learning it takes three such reports to reach Mastered.
C34_RisesOnlyWhenDisplayed ==
    [][\A c \in StoreCards(flashcards) :
          Top(flashcards', c) > Top(flashcards, c)
          => /\ call'.op = "Correct"
             /\ current # NoTuple
             /\ card_of(current) = c
             /\ Top(flashcards', c) = Top(flashcards, c) + 1]_vars

====
